---- MODULE Spec2Model ----
(***************************************************************************)
(* Model of the Clearpath RAG backend (Lemnisca_chatbot).                  *)
(*                                                                         *)
(*   Part 1  VectorStore   backend/rag/vector_store.py                     *)
(*   Part 2  GroqClient    backend/llm/groq_client.py                      *)
(*   Part 3  Query log     backend/logging_/structured_logger.py           *)
(*   Part 4  Query path    backend/api/routes_query.py + rag/pipeline      *)
(*   Part 5  Application   backend/main.py, api/routes_ingest.py,          *)
(*                         rag/ingestion.py, rag/retriever.py              *)
(*   Part 6  Router        backend/router/deterministic_router.py          *)
(*   Part 7  Retriever     backend/rag/retriever.py                        *)
(*                                                                         *)
(* Every part has its own next-state relation and specification; the       *)
(* variables of the other parts stay at their initial values.              *)
(***************************************************************************)
EXTENDS Integers, Sequences, FiniteSets, TLC

VARIABLES
    \* ---- Part 1: VectorStore ----
    loaded,      \* VectorStore._loaded
    index,       \* VectorStore._index    (faiss.IndexFlatIP, or None)
    metadata,    \* VectorStore._metadata (list of dicts)
    faissFile,   \* index.faiss on disk
    pklFile,     \* index.pkl on disk
    pc,          \* per thread: position inside the running VectorStore call
    op,          \* per thread: the public method being executed
    arg,         \* per thread: argument of the call (records, or probe and k)
    tmp,         \* per thread: locals of the call
    res,         \* per thread: outcome of the last finished call
    out,         \* per thread: list returned by the last search()
    snap,        \* per thread: (index, metadata, files) seen when the call began
    nextId,      \* number of chunk ids handed out so far (uuid4 stand-in)
    \* ---- Part 2: GroqClient.generate ----
    gpc,         \* position inside generate()
    attempt,     \* the loop variable "attempt"
    last_exception,  \* the local last_exception
    glog,        \* what the call did so far: upstream outcomes and sleeps, in order
    gres,        \* what generate() returned or raised
    \* ---- Part 4: query endpoint and pipeline ----
    qpc,         \* per worker: position in query_endpoint / the pipeline
    qreq,        \* per worker: the request (request_id, stream, blank query)
    qerr,        \* per worker: the error the pipeline ran into ("null": none)
    events,      \* per worker: SSE events emitted so far
    response,    \* per worker: the HTTP response of the endpoint
    nextReq,     \* number of request ids handed out so far (uuid4 stand-in)
    \* ---- Part 3: query log ----
    inodes,      \* the files of the log directory by inode: each a list of lines
    activeIno,   \* inode at settings.LOG_FILE_PATH, 0 when no such file
    rotated,     \* inodes at the queries_<timestamp>.jsonl paths
    lpc,         \* per worker: position inside log_query()
    lentry,      \* per worker: the entry dict of the call
    lfd,         \* per worker: inode of the file handle fh, 0 when not open
    \* ---- Part 5: application (startup, ingest requests, retrieval) ----
    app,         \* the lifespan: "starting", "loading", "serving" or "aborted"
    running,     \* the task the event loop is executing, 0 when none
    hpc,         \* per task: position in ingest_endpoint / ingest_pdf / retrieve
    hrecords,    \* per task: the list "records" of ingest_pdf
    hcalls,      \* per task: the vector_store calls ingest_pdf has made
    hsnap,       \* per task: the store and its files when ingest_pdf was entered
    hstatus,     \* per task: status code of the response, 0 before there is one
    published,   \* chunk ids of the ingest_pdf calls that have returned
    mustSee,     \* per task: "published" as it was when the query started
    \* ---- Part 6: router ----
    rquery,      \* the query given to classify_query
    rout,        \* what classify_query returned for it, call after call
    \* ---- Part 7: retriever ----
    chunksIn,    \* the list a call works on: search results, or deduplicate's input
    retOut,      \* the function called last and the list it returned
    \* ---- Parts 8 to 11: evaluator, log reader, chunker, sanitizer ----
    callIn,      \* the arguments of the call of a function
    callOut      \* what the call returned (its name in "fn")

routerVars == <<rquery, rout>>

retrieverVars == <<chunksIn, retOut>>

callVars == <<callIn, callOut>>

appVars == <<app, running, hpc, hrecords, hcalls, hsnap, hstatus, published, mustSee>>

queryVars == <<qpc, qreq, qerr, events, response, nextReq>>

logVars == <<inodes, activeIno, rotated, lpc, lentry, lfd>>

groqVars == <<gpc, attempt, last_exception, glog, gres>>

storeVars == <<loaded, index, metadata, faissFile, pklFile,
               pc, op, arg, tmp, res, out, snap, nextId>>

vars == <<storeVars, groqVars, queryVars, logVars, appVars, routerVars, retrieverVars, callVars>>

(***************************************************************************)
(* Bounds                                                                  *)
(***************************************************************************)
MaxChunks == 3        \* chunk records created over a run
MaxBatch == 2         \* records passed to one add()
MaxK == 2             \* largest k passed to search()
NumThreads == 2       \* threads calling into the store or serving queries
MaxRequests == 3      \* query requests over a run
MaxTokens == 2        \* token fragments of one streamed answer
RotateAtLines == 2    \* lines at which the log file reaches the rotation size

Threads == 1..NumThreads

(***************************************************************************)
(* Part 1: VectorStore                                                     *)
(***************************************************************************)

\* settings.EMBEDDING_DIM, the default of VectorStore.dimension
EMBEDDING_DIM == 384

\* a dimension other than EMBEDDING_DIM (an embedder of another model)
OtherDims == {128}

Dims == {EMBEDDING_DIM} \cup OtherDims

\* The value of an embedding is abstracted to the direction it points to:
\* four unit vectors of the plane, all 384 (or 128) components folded in two.
Dir(v) ==
    CASE v % 4 = 0 -> <<1, 0>>
      [] v % 4 = 1 -> <<0, 1>>
      [] v % 4 = 2 -> <<-1, 0>>
      [] OTHER     -> <<0, -1>>

Probes == {0, 1}

\* inner product of probe direction q and stored vector e (IndexFlatIP metric)
Score(q, e) == Dir(q)[1] * Dir(e.v)[1] + Dir(q)[2] * Dir(e.v)[2]

\* ChunkRecord: chunk_id and embedding; the other metadata fields
\* (text, source_file, page_number, chunk_index) travel with chunk_id.
ChunkRecord(c, d) == [chunk_id |-> c, embedding |-> [dim |-> d, v |-> c]]

\* ChunkRecord.to_dict: the metadata without the embedding
to_dict(r) == [chunk_id |-> r.chunk_id]

\* self._index = None
NoIndex == [d |-> 0, vecs |-> <<>>]

\* faiss.IndexFlatIP(dimension)
IndexFlatIP(d) == [d |-> d, vecs |-> <<>>]

ntotal(ix) == Len(ix.vecs)

\* a file: absent, unreadable (truncated or partly written), or with content
Absent == [state |-> "absent", content |-> <<>>]
Corrupt == [state |-> "corrupt", content |-> <<>>]
FileOf(c) == [state |-> "ok", content |-> c]

exists(f) == f.state # "absent"

\* read_index as it would be if the last stored vector were not read back
read_indexDropsLast(c) ==
    [d |-> c.d,
     vecs |-> [i \in 1..(IF c.ntotal = 0 THEN 0 ELSE c.ntotal - 1) |->
                  [dim |-> c.d, v |-> c.codes[i]]]]

\* faiss.write_index: the file of a flat index is its header (d, ntotal)
\* followed by the stored vectors, d components each
write_index(ix) ==
    [d |-> ix.d, ntotal |-> Len(ix.vecs), codes |-> [i \in DOMAIN ix.vecs |-> ix.vecs[i].v]]

\* faiss.read_index: ntotal vectors of d components each are cut from the file
read_index(c) ==
    [d |-> c.d, vecs |-> [i \in 1..c.ntotal |-> [dim |-> c.d, v |-> c.codes[i]]]]

\* pickle.dump(self._metadata, fh): the list as a stream of (key, value) items
pickle_dump(meta) == [i \in DOMAIN meta |-> <<"chunk_id", meta[i].chunk_id>>]

\* pickle.load(fh): the dicts are built again from the stream
pickle_load(c) == [i \in DOMAIN c |-> [chunk_id |-> c[i][2]]]

NoLocals == [ix |-> NoIndex, meta |-> <<>>, hits |-> <<>>]
NoArg == [records |-> <<>>, q |-> 0, k |-> 0]
NoSnap == [loaded |-> FALSE, index |-> NoIndex, metadata |-> <<>>,
           faiss |-> Absent, pkl |-> Absent]

\* A directory left by an earlier run: nothing, a persisted pair, or a pair
\* whose index was built with another embedding dimension.
InitialDisks ==
    { <<Absent, Absent>>,
      <<FileOf(write_index([d |-> EMBEDDING_DIM,
                            vecs |-> <<[dim |-> EMBEDDING_DIM, v |-> 0]>>])),
        FileOf(pickle_dump(<<[chunk_id |-> 0]>>))>>,
      <<FileOf(write_index([d |-> 128, vecs |-> <<[dim |-> 128, v |-> 0]>>])),
        FileOf(pickle_dump(<<[chunk_id |-> 0]>>))>> }

\* the store of a fresh process over the directory d
StoreStart(d) ==
    /\ loaded = FALSE
    /\ index = NoIndex
    /\ metadata = <<>>
    /\ faissFile = d[1] /\ pklFile = d[2]
    /\ pc = [t \in Threads |-> "idle"]
    /\ op = [t \in Threads |-> "none"]
    /\ arg = [t \in Threads |-> NoArg]
    /\ tmp = [t \in Threads |-> NoLocals]
    /\ res = [t \in Threads |-> "none"]
    /\ out = [t \in Threads |-> <<>>]
    /\ snap = [t \in Threads |-> NoSnap]
    /\ nextId = 1

StoreInit == \E d \in InitialDisks : StoreStart(d)

\* the state a method body sees when it starts (kept to compare on return)
Snapshot ==
    [loaded |-> loaded, index |-> index, metadata |-> metadata,
     faiss |-> faissFile, pkl |-> pklFile]

\* a public method reaches its return statement or raises: its outcome r is
\* in the caller's hands at pc = "ret"
Finish(t, r) ==
    /\ pc' = [pc EXCEPT ![t] = "ret"]
    /\ res' = [res EXCEPT ![t] = r]

Goto(t, p) == pc' = [pc EXCEPT ![t] = p]

\* ---------------------------------------------------------------- calls --

\* Entry of load(), or of a method through _ensure_loaded(): a method that
\* finds _loaded false runs load() first and then continues.
Enter(t, o, a) ==
    /\ pc[t] = "idle"
    /\ op' = [op EXCEPT ![t] = o]
    /\ arg' = [arg EXCEPT ![t] = a]
    /\ tmp' = [tmp EXCEPT ![t] = NoLocals]
    /\ out' = [out EXCEPT ![t] = <<>>]
    /\ res' = [res EXCEPT ![t] = "running"]
    /\ snap' = [snap EXCEPT ![t] = IF o \in {"load", "add", "persist"} THEN Snapshot ELSE NoSnap]
    /\ Goto(t, IF o = "load" \/ ~loaded THEN "load" ELSE o)
    /\ UNCHANGED <<loaded, index, metadata, faissFile, pklFile>>

CallLoad(t) == Enter(t, "load", NoArg) /\ UNCHANGED nextId

\* records built by the caller: fresh chunk ids, each with its embedding
CallAdd(t) ==
    \E n \in 0..MaxBatch :
      \E ds \in [1..n -> Dims] :
        /\ nextId + n <= MaxChunks + 1
        /\ Enter(t, "add",
                 [NoArg EXCEPT !.records = [i \in 1..n |-> ChunkRecord(nextId + i - 1, ds[i])]])
        /\ nextId' = nextId + n

CallPersist(t) == Enter(t, "persist", NoArg) /\ UNCHANGED nextId

CallSearch(t) ==
    \E q \in Probes, k \in 1..MaxK :
        /\ Enter(t, "search", [NoArg EXCEPT !.q = q, !.k = k])
        /\ UNCHANGED nextId

\* ----------------------------------------------------------------- load --

\* load(), lines 97-109 and 118-125: read both files, or start empty
LoadRead(t) ==
    /\ pc[t] = "load"
    /\ IF exists(faissFile) /\ exists(pklFile)
       THEN IF faissFile.state = "corrupt"
            THEN Finish(t, "IOError") /\ UNCHANGED tmp          \* faiss.read_index raises
            ELSE IF faissFile.content.d # EMBEDDING_DIM
            THEN Finish(t, "RuntimeError") /\ UNCHANGED tmp     \* dimension mismatch
            ELSE IF pklFile.state = "corrupt"
            THEN Finish(t, "IOError") /\ UNCHANGED tmp          \* pickle.load raises
            ELSE /\ tmp' = [tmp EXCEPT ![t].ix = read_index(faissFile.content),
                                       ![t].meta = pickle_load(pklFile.content)]
                 /\ Goto(t, "load_set_index")
                 /\ UNCHANGED res
       ELSE /\ tmp' = [tmp EXCEPT ![t].ix = IndexFlatIP(EMBEDDING_DIM), ![t].meta = <<>>]
            /\ Goto(t, "load_set_index")
            /\ UNCHANGED res
    /\ UNCHANGED <<loaded, index, metadata, faissFile, pklFile, op, arg, out, snap, nextId>>

\* self._index = index  (line 111 / 124)
LoadSetIndex(t) ==
    /\ pc[t] = "load_set_index"
    /\ index' = tmp[t].ix
    /\ Goto(t, "load_set_meta")
    /\ UNCHANGED <<loaded, metadata, faissFile, pklFile, op, arg, tmp, res, out, snap, nextId>>

\* self._metadata = metadata  (line 112 / 125)
LoadSetMeta(t) ==
    /\ pc[t] = "load_set_meta"
    /\ metadata' = tmp[t].meta
    /\ Goto(t, "load_done")
    /\ UNCHANGED <<loaded, index, faissFile, pklFile, op, arg, tmp, res, out, snap, nextId>>

\* self._loaded = True (line 127); then return, or continue the method that
\* called _ensure_loaded()
LoadDone(t) ==
    /\ pc[t] = "load_done"
    /\ loaded' = TRUE
    /\ IF op[t] = "load"
       THEN Finish(t, "ok") /\ UNCHANGED snap
       ELSE /\ Goto(t, op[t])
            /\ snap' = [snap EXCEPT ![t] = IF op[t] \in {"add", "persist"} THEN Snapshot ELSE NoSnap]
            /\ UNCHANGED res
    /\ UNCHANGED <<index, metadata, faissFile, pklFile, op, arg, tmp, out, nextId>>

\* ------------------------------------------------------------------ add --

\* AddValidate as it would be if only the first embedding were measured
AddValidateFirstOnly(records) == records[1].embedding.dim = EMBEDDING_DIM

\* np.array([r.embedding ...], dtype=float32) and the shape test, lines
\* 168-176: TRUE when neither raises.  Embeddings of unequal length make no
\* rectangular array (the conversion raises); otherwise shape[1] is the
\* common length.
AddValidate(records) ==
    /\ \A i, j \in DOMAIN records : records[i].embedding.dim = records[j].embedding.dim
    /\ records[1].embedding.dim = EMBEDDING_DIM

\* add(), lines 165-176
AddCheck(t) ==
    /\ pc[t] = "add"
    /\ IF arg[t].records = <<>>
       THEN Finish(t, "ok")
       ELSE IF AddValidate(arg[t].records)
            THEN Goto(t, "add_index") /\ UNCHANGED res
            ELSE Finish(t, "ValueError")
    /\ UNCHANGED <<loaded, index, metadata, faissFile, pklFile, op, arg, tmp, out, snap, nextId>>

\* self._index.add(embeddings), line 178
AddIndex(t) ==
    /\ pc[t] = "add_index"
    /\ index' = [index EXCEPT !.vecs =
                    @ \o [i \in DOMAIN arg[t].records |-> arg[t].records[i].embedding]]
    /\ tmp' = [tmp EXCEPT ![t].meta = [i \in DOMAIN arg[t].records |-> to_dict(arg[t].records[i])]]
    /\ Goto(t, "add_meta")
    /\ UNCHANGED <<loaded, metadata, faissFile, pklFile, op, arg, res, out, snap, nextId>>

\* AddMeta as it would be if the loop stopped after its first record
AddMetaFirstOnly(t) ==
    /\ pc[t] = "add_meta"
    /\ metadata' = Append(metadata, Head(tmp[t].meta))
    /\ tmp' = [tmp EXCEPT ![t].meta = <<>>]
    /\ Finish(t, "ok")
    /\ UNCHANGED <<loaded, index, faissFile, pklFile, op, arg, out, snap, nextId>>

\* one round of "for r in records: self._metadata.append(r.to_dict())",
\* lines 179-180; tmp.meta holds the dicts not yet appended
AddMeta(t) ==
    /\ pc[t] = "add_meta"
    /\ metadata' = Append(metadata, Head(tmp[t].meta))
    /\ tmp' = [tmp EXCEPT ![t].meta = Tail(@)]
    /\ IF Len(tmp[t].meta) = 1
       THEN Finish(t, "ok")
       ELSE UNCHANGED <<pc, res>>
    /\ UNCHANGED <<loaded, index, faissFile, pklFile, op, arg, out, snap, nextId>>

\* -------------------------------------------------------------- persist --

\* faiss.write_index(self._index, self.faiss_path), line 142: the file is
\* rewritten in place
PersistWriteIndex(t) ==
    /\ pc[t] = "persist"
    /\ faissFile' = FileOf(write_index(index))
    /\ Goto(t, "persist_open")
    /\ UNCHANGED <<loaded, index, metadata, pklFile, op, arg, tmp, res, out, snap, nextId>>

\* open(self.pkl_path, "wb"), line 143: mode "wb" truncates the file
PersistOpenPkl(t) ==
    /\ pc[t] = "persist_open"
    /\ pklFile' = Corrupt
    /\ Goto(t, "persist_dump")
    /\ UNCHANGED <<loaded, index, metadata, faissFile, op, arg, tmp, res, out, snap, nextId>>

\* pickle.dump(self._metadata, fh) and the close of the with block, line 144
PersistDump(t) ==
    /\ pc[t] = "persist_dump"
    /\ pklFile' = FileOf(pickle_dump(metadata))
    /\ Finish(t, "ok")
    /\ UNCHANGED <<loaded, index, metadata, faissFile, op, arg, tmp, out, snap, nextId>>

\* ---------------------------------------------------------------- search --

\* Best as it would be if the lowest inner product came first
BestLowest(ix, q, cand) ==
    CHOOSE i \in cand : \A j \in cand :
        \/ Score(q, ix.vecs[i + 1]) < Score(q, ix.vecs[j + 1])
        \/ Score(q, ix.vecs[i + 1]) = Score(q, ix.vecs[j + 1]) /\ i <= j

\* id of the best remaining candidate: highest inner product, lowest id on a tie
Best(ix, q, cand) ==
    CHOOSE i \in cand : \A j \in cand :
        \/ Score(q, ix.vecs[i + 1]) > Score(q, ix.vecs[j + 1])
        \/ Score(q, ix.vecs[i + 1]) = Score(q, ix.vecs[j + 1]) /\ i <= j

RECURSIVE TopK(_, _, _, _)
TopK(ix, q, cand, k) ==
    IF k = 0 THEN <<>>
    ELSE IF cand = {} THEN <<[idx |-> -1, score |-> 0]>> \o TopK(ix, q, {}, k - 1)
    ELSE LET b == Best(ix, q, cand)
         IN <<[idx |-> b, score |-> Score(q, ix.vecs[b + 1])]>> \o TopK(ix, q, cand \ {b}, k - 1)

\* self._index.search(query, k): k (score, internal id) pairs by score
\* descending, the vacant slots filled with id -1
IndexSearch(ix, q, k) == TopK(ix, q, 0..(ntotal(ix) - 1), k)

\* search(), lines 205-206
SearchCheck(t) ==
    /\ pc[t] = "search"
    /\ IF ntotal(index) = 0
       THEN Finish(t, "ok")
       ELSE Goto(t, "search_index") /\ UNCHANGED res
    /\ UNCHANGED <<loaded, index, metadata, faissFile, pklFile, op, arg, tmp, out, snap, nextId>>

\* scores, indices = self._index.search(query, k), lines 208-209
SearchIndex(t) ==
    /\ pc[t] = "search_index"
    /\ tmp' = [tmp EXCEPT ![t].hits = IndexSearch(index, arg[t].q, arg[t].k)]
    /\ Goto(t, "search_meta")
    /\ UNCHANGED <<loaded, index, metadata, faissFile, pklFile, op, arg, res, out, snap, nextId>>

\* one round of the result loop, lines 212-217, and the return of line 219;
\* self._metadata[idx] raises IndexError for an idx the list does not have
SearchMeta(t) ==
    /\ pc[t] = "search_meta"
    /\ IF tmp[t].hits = <<>>
       THEN Finish(t, "ok") /\ UNCHANGED <<tmp, out>>
       ELSE LET idx == Head(tmp[t].hits).idx IN
            IF idx = -1
            THEN /\ tmp' = [tmp EXCEPT ![t].hits = Tail(@)]
                 /\ UNCHANGED <<pc, res, out>>
            ELSE IF idx + 1 > Len(metadata)
            THEN Finish(t, "IndexError") /\ UNCHANGED <<tmp, out>>
            ELSE /\ out' = [out EXCEPT ![t] = Append(@,
                        [chunk_id |-> metadata[idx + 1].chunk_id,
                         score |-> Head(tmp[t].hits).score])]
                 /\ tmp' = [tmp EXCEPT ![t].hits = Tail(@)]
                 /\ UNCHANGED <<pc, res>>
    /\ UNCHANGED <<loaded, index, metadata, faissFile, pklFile, op, arg, snap, nextId>>

\* --------------------------------------------------- faults and restart --

\* faiss.write_index raises: the file could not be opened (unchanged) or the
\* write broke off (partly written)
PersistWriteIndexFails(t) ==
    /\ pc[t] = "persist"
    /\ \E f \in {faissFile, Corrupt} : faissFile' = f
    /\ Finish(t, "IOError")
    /\ UNCHANGED <<loaded, index, metadata, pklFile, op, arg, tmp, out, snap, nextId>>

\* open(self.pkl_path, "wb") raises: nothing is truncated
PersistOpenPklFails(t) ==
    /\ pc[t] = "persist_open"
    /\ Finish(t, "IOError")
    /\ UNCHANGED <<loaded, index, metadata, faissFile, pklFile, op, arg, tmp, out, snap, nextId>>

\* pickle.dump raises after the file was truncated
PersistDumpFails(t) ==
    /\ pc[t] = "persist_dump"
    /\ Finish(t, "IOError")
    /\ UNCHANGED <<loaded, index, metadata, faissFile, pklFile, op, arg, tmp, out, snap, nextId>>

\* The process stops at any point and a new one starts: the module-level
\* "vector_store = VectorStore()" runs again, the files are what they were.
Restart ==
    /\ loaded' = FALSE
    /\ index' = NoIndex
    /\ metadata' = <<>>
    /\ pc' = [t \in Threads |-> "idle"]
    /\ op' = [t \in Threads |-> "none"]
    /\ arg' = [t \in Threads |-> NoArg]
    /\ tmp' = [t \in Threads |-> NoLocals]
    /\ res' = [t \in Threads |-> "none"]
    /\ out' = [t \in Threads |-> <<>>]
    /\ snap' = [t \in Threads |-> NoSnap]
    /\ UNCHANGED <<faissFile, pklFile, nextId>>

\* the caller takes the outcome; the frame of the call is gone
Return(t) ==
    /\ pc[t] = "ret"
    /\ pc' = [pc EXCEPT ![t] = "idle"]
    /\ op' = [op EXCEPT ![t] = "none"]
    /\ arg' = [arg EXCEPT ![t] = NoArg]
    /\ tmp' = [tmp EXCEPT ![t] = NoLocals]
    /\ res' = [res EXCEPT ![t] = "none"]
    /\ out' = [out EXCEPT ![t] = <<>>]
    /\ snap' = [snap EXCEPT ![t] = NoSnap]
    /\ UNCHANGED <<loaded, index, metadata, faissFile, pklFile, nextId>>

Call(t) == CallLoad(t) \/ CallAdd(t) \/ CallPersist(t) \/ CallSearch(t)

Step(t) ==
    \/ LoadRead(t) \/ LoadSetIndex(t) \/ LoadSetMeta(t) \/ LoadDone(t)
    \/ AddCheck(t) \/ AddIndex(t) \/ AddMeta(t)
    \/ PersistWriteIndex(t) \/ PersistOpenPkl(t) \/ PersistDump(t)
    \/ SearchCheck(t) \/ SearchIndex(t) \/ SearchMeta(t)
    \/ Return(t)

Fault(t) == PersistWriteIndexFails(t) \/ PersistOpenPklFails(t) \/ PersistDumpFails(t)

Quiescent == \A t \in Threads : pc[t] = "idle"

\* no call is inside a method body: every thread is idle or holds a result
AtRest == \A t \in Threads : pc[t] \in {"idle", "ret"}

(***************************************************************************)
(* Part 1: claims                                                          *)
(***************************************************************************)

\* sidecar position i holds the record of the vector with internal id i
Aligned(ix, meta) ==
    /\ Len(meta) = ntotal(ix)
    /\ \A i \in DOMAIN meta : meta[i].chunk_id = ix.vecs[i].v

\* C1: with the calls load, add (accepted or rejected), persist and search
\* run one at a time, between calls the sidecar is as long as the index has
\* vectors and position i holds the record of the vector with internal id i.
C1_SidecarMatchesIndex == AtRest => Aligned(index, metadata)

\* C1 witness: a load() returned a store of two or more chunks, which an
\* earlier add() and persist() had written
C1_Witness ==
    \E t \in Threads :
        /\ pc[t] = "ret" /\ op[t] = "load" /\ res[t] = "ok"
        /\ ntotal(index) >= 2
        /\ nextId > 2

\* C2: a search() running beside an add() never holds an internal id that
\* the sidecar has no record for.
C2_ReaderIdsHaveRecords ==
    \A t \in Threads :
        pc[t] = "search_meta" =>
            \A i \in DOMAIN tmp[t].hits : tmp[t].hits[i].idx < Len(metadata)

\* C3: when persist() fails, both files are what they were before the call
\* and the index and sidecar in memory are untouched.
C3_FailedPersistKeepsFiles ==
    \A t \in Threads :
        (pc[t] = "ret" /\ op[t] = "persist" /\ res[t] # "ok") =>
            /\ faissFile = snap[t].faiss
            /\ pklFile = snap[t].pkl
            /\ index = snap[t].index
            /\ metadata = snap[t].metadata

\* C4: what load() reads from existing files is a pair: as many sidecar
\* records as the index has vectors, also after an interrupted persist().
C4_LoadedPairMatches ==
    \A t \in Threads :
        pc[t] = "load_set_index" => Len(tmp[t].meta) = ntotal(tmp[t].ix)

\* C5: an add() given an embedding of a dimension other than 384 fails and
\* appends nothing to index or sidecar; every vector in the index has
\* dimension 384.
C5_WrongDimensionRejected ==
    /\ \A i \in DOMAIN index.vecs : index.vecs[i].dim = EMBEDDING_DIM
    /\ \A t \in Threads :
        ( /\ pc[t] = "ret" /\ op[t] = "add"
          /\ \E i \in DOMAIN arg[t].records :
                arg[t].records[i].embedding.dim # EMBEDDING_DIM ) =>
            /\ res[t] # "ok"
            /\ index = snap[t].index
            /\ metadata = snap[t].metadata

\* C5 witness: add() has rejected, on a store that holds chunks, a batch
\* whose first embedding has 384 components and whose second has not
C5_Witness ==
    \E t \in Threads :
        /\ pc[t] = "ret" /\ op[t] = "add" /\ res[t] = "ValueError"
        /\ Len(arg[t].records) = 2
        /\ arg[t].records[1].embedding.dim = EMBEDDING_DIM
        /\ arg[t].records[2].embedding.dim # EMBEDDING_DIM
        /\ ntotal(index) >= 1

\* every direction a probe vector can point to
AllProbes == 0..3

\* the pair a store finds in the two files
ReloadedIndex == read_index(faissFile.content)
ReloadedMetadata == pickle_load(pklFile.content)

\* C13: round trip.  When persist() has returned, the pair a fresh store
\* reads from the files has the metadata of the persisting store in the same
\* order and gives the same nearest neighbours for every probe; and what
\* load() installs in a store is that pair read from the files.
C13_PersistLoadRoundTrip ==
    \A t \in Threads :
        /\ (pc[t] = "ret" /\ op[t] = "persist" /\ res[t] = "ok") =>
            /\ faissFile.state = "ok" /\ pklFile.state = "ok"
            /\ ReloadedMetadata = metadata
            /\ ntotal(ReloadedIndex) = ntotal(index)
            /\ \A q \in AllProbes, k \in 1..MaxK :
                  IndexSearch(ReloadedIndex, q, k) = IndexSearch(index, q, k)
        /\ (pc[t] = "ret" /\ op[t] = "load" /\ res[t] = "ok" /\ exists(faissFile)) =>
            /\ metadata = ReloadedMetadata
            /\ index = ReloadedIndex

\* C13 witness: a fresh store has loaded two or more chunks, which a store
\* before it had added and persisted
C13_Witness ==
    \E t \in Threads :
        /\ pc[t] = "ret" /\ op[t] = "load" /\ res[t] = "ok"
        /\ ~snap[t].loaded
        /\ ntotal(index) >= 2
        /\ Len(metadata) >= 2

\* C15: a load() on a store that an earlier load() had loaded leaves the
\* chunk count, the metadata order and the search results as they were.
C15_RepeatedLoadChangesNothing ==
    \A t \in Threads :
        (pc[t] = "ret" /\ op[t] = "load" /\ res[t] = "ok" /\ snap[t].loaded) =>
            /\ ntotal(index) = ntotal(snap[t].index)
            /\ metadata = snap[t].metadata
            /\ \A q \in AllProbes, k \in 1..MaxK :
                  IndexSearch(index, q, k) = IndexSearch(snap[t].index, q, k)

\* C16: search(q, k) returns [] on an empty index and otherwise exactly
\* min(k, vector count) results, by score descending, each the sidecar
\* record of a vector of the index with that vector's score, no vector twice.
C16_SearchReturnsTopK ==
    \A t \in Threads :
        (pc[t] = "ret" /\ op[t] = "search" /\ loaded) =>
            /\ res[t] = "ok"
            /\ IF ntotal(index) = 0
               THEN out[t] = <<>>
               ELSE /\ Len(out[t]) = (IF arg[t].k < ntotal(index) THEN arg[t].k ELSE ntotal(index))
                    /\ \A i, j \in DOMAIN out[t] : i < j => out[t][i].score >= out[t][j].score
                    /\ \A i, j \in DOMAIN out[t] : i # j => out[t][i].chunk_id # out[t][j].chunk_id
                    /\ \A i \in DOMAIN out[t] : \E n \in DOMAIN metadata :
                          /\ out[t][i].chunk_id = metadata[n].chunk_id
                          /\ out[t][i].score = Score(arg[t].q, index.vecs[n])
                    /\ \A n \in DOMAIN index.vecs :
                          (\A i \in DOMAIN out[t] : out[t][i].chunk_id # metadata[n].chunk_id) =>
                              \A i \in DOMAIN out[t] :
                                  out[t][i].score >= Score(arg[t].q, index.vecs[n])

\* C16 witness: k = 2 on an index of one vector gave one result (the vacant
\* slot gave none)
C16_Witness ==
    \E t \in Threads :
        /\ pc[t] = "ret" /\ op[t] = "search" /\ res[t] = "ok"
        /\ arg[t].k = 2 /\ ntotal(index) = 1
        /\ Len(out[t]) = 1

(***************************************************************************)
(* Part 2: GroqClient.generate                                             *)
(***************************************************************************)

MAX_RETRIES == 2

BACKOFF_DELAYS == <<1, 3>>

\* status_code of an exception that has none (getattr(exc, "status_code", None))
NoStatus == 0

\* What one self._client.chat.completions.create() call can do: return, or
\* raise one of the SDK's exceptions or something else.
UpstreamErrors ==
    { [kind |-> "BadRequestError", status |-> 400],
      [kind |-> "APIStatusError", status |-> 401],
      [kind |-> "APIStatusError", status |-> 429],
      [kind |-> "APIStatusError", status |-> 500],
      [kind |-> "APIStatusError", status |-> 503],
      [kind |-> "APITimeoutError", status |-> NoStatus],
      [kind |-> "APIConnectionError", status |-> NoStatus],
      [kind |-> "Exception", status |-> NoStatus] }

Response == [kind |-> "response", status |-> 200]

NoException == [kind |-> "None", status |-> NoStatus]

\* the second except clause, line 89: the SDK's status, timeout and
\* connection errors
IsApiError(e) == e.kind \in {"APIStatusError", "APITimeoutError", "APIConnectionError"}

\* Is4xxStatus as it would be if only status 400 counted
Is4xxStatusOnly400(e) == e.status # NoStatus /\ e.status = 400

\* "status_code is not None and 400 <= status_code < 500", line 94
Is4xxStatus(e) == e.status # NoStatus /\ 400 <= e.status /\ e.status < 500

\* "if attempt < _MAX_RETRIES", line 103: a wait and another round follow
HasRetryLeft(a) == a < MAX_RETRIES

\* LoopContinues as it would be with one more round
LoopContinuesOneMore(a) == a + 1 < MAX_RETRIES + 2

\* "for attempt in range(_MAX_RETRIES + 1)", line 72: is there a round after a
LoopContinues(a) == a + 1 < MAX_RETRIES + 1

\* BackoffDelay as it would be with one fixed delay
BackoffDelayFixed(a) == BACKOFF_DELAYS[1]

\* delay = _BACKOFF_DELAYS[attempt], line 104
BackoffDelay(a) == BACKOFF_DELAYS[a + 1]

GroqInit ==
    /\ gpc = "idle"
    /\ attempt = 0
    /\ last_exception = NoException
    /\ glog = <<>>
    /\ gres = [kind |-> "none", cause |-> NoException]

\* generate() is called: line 70
GenerateCall ==
    /\ gpc = "idle"
    /\ gpc' = "try"
    /\ attempt' = 0
    /\ last_exception' = NoException
    /\ glog' = <<>>
    /\ gres' = [kind |-> "running", cause |-> NoException]

\* lines 74-80: the upstream call returns
AttemptReturns ==
    /\ gpc = "try"
    /\ glog' = Append(glog, [what |-> "attempt", outcome |-> Response, delay |-> 0])
    /\ gres' = [kind |-> "response", cause |-> NoException]
    /\ gpc' = "ret"
    /\ UNCHANGED <<attempt, last_exception>>

\* lines 82-126: the upstream call raises e
AttemptRaises ==
    /\ gpc = "try"
    /\ \E e \in UpstreamErrors :
        /\ glog' = Append(glog, [what |-> "attempt", outcome |-> e, delay |-> 0])
        /\ IF e.kind = "BadRequestError"
           THEN \* line 87
                /\ gres' = [kind |-> e.kind, cause |-> e]
                /\ gpc' = "ret"
                /\ UNCHANGED <<attempt, last_exception>>
           ELSE IF IsApiError(e)
           THEN /\ last_exception' = e                      \* line 90
                /\ IF Is4xxStatus(e)
                   THEN \* line 101
                        /\ gres' = [kind |-> e.kind, cause |-> e]
                        /\ gpc' = "ret"
                   ELSE /\ gpc' = IF HasRetryLeft(attempt) THEN "sleep" ELSE "next"
                        /\ UNCHANGED gres
                /\ UNCHANGED attempt
           ELSE \* line 126: anything else is re-raised
                /\ gres' = [kind |-> e.kind, cause |-> e]
                /\ gpc' = "ret"
                /\ UNCHANGED <<attempt, last_exception>>

\* time.sleep(delay), lines 104-112
Sleep ==
    /\ gpc = "sleep"
    /\ glog' = Append(glog, [what |-> "sleep", outcome |-> NoException,
                             delay |-> BackoffDelay(attempt)])
    /\ gpc' = "next"
    /\ UNCHANGED <<attempt, last_exception, gres>>

\* the for statement takes its next value, or the loop is over and line 128
\* raises ConnectionError built from last_exception
NextRound ==
    /\ gpc = "next"
    /\ IF LoopContinues(attempt)
       THEN /\ attempt' = attempt + 1
            /\ gpc' = "try"
            /\ UNCHANGED gres
       ELSE /\ gres' = [kind |-> "ConnectionError", cause |-> last_exception]
            /\ gpc' = "ret"
            /\ UNCHANGED attempt
    /\ UNCHANGED <<last_exception, glog>>

\* the caller has the result; the next call starts from scratch
GenerateReturn ==
    /\ gpc = "ret"
    /\ gpc' = "idle"
    /\ attempt' = 0
    /\ last_exception' = NoException
    /\ glog' = <<>>
    /\ gres' = [kind |-> "none", cause |-> NoException]

GroqNext ==
    \/ GenerateCall \/ AttemptReturns \/ AttemptRaises \/ Sleep \/ NextRound
    \/ GenerateReturn

(***************************************************************************)
(* Part 2: claims                                                          *)
(***************************************************************************)

\* the upstream outcomes of the call so far, in order
Attempts == SelectSeq(glog, LAMBDA x : x.what = "attempt")

\* the delays slept so far, in order
Waits ==
    LET sl == SelectSeq(glog, LAMBDA x : x.what = "sleep")
    IN [i \in DOMAIN sl |-> sl[i].delay]

\* a timeout, a connection failure or a 5xx answer
Retriable(e) ==
    \/ e.kind \in {"APITimeoutError", "APIConnectionError"}
    \/ e.kind = "APIStatusError" /\ e.status >= 500

\* a 4xx answer
ClientError(e) == e.status >= 400 /\ e.status < 500

\* C6: a generate() whose attempts all fail with a timeout, a connection
\* failure or a 5xx makes exactly 3 attempts, then raises ConnectionError
\* carrying the last of these failures; no call makes a 4th attempt.
C6_ThreeAttemptsThenUnreachable ==
    /\ Len(Attempts) <= 3
    /\ ( /\ gpc = "ret"
         /\ \A i \in DOMAIN Attempts : Retriable(Attempts[i].outcome) ) =>
            /\ Len(Attempts) = 3
            /\ gres.kind = "ConnectionError"
            /\ gres.cause = Attempts[3].outcome

\* C6 witness: three retriable failures, the last one a 503 after a timeout
C6_Witness ==
    /\ gpc = "ret"
    /\ gres.kind = "ConnectionError"
    /\ Len(Attempts) = 3
    /\ Attempts[2].outcome.kind = "APITimeoutError"
    /\ Attempts[3].outcome.status = 503

\* C7: once an attempt has failed with a 4xx, first or later, no further
\* attempt and no wait follows, and generate() raises that very error.
C7_ClientErrorNotRetried ==
    \A i \in DOMAIN glog :
        (glog[i].what = "attempt" /\ ClientError(glog[i].outcome)) =>
            /\ i = Len(glog)
            /\ gpc = "ret"
            /\ gres.cause = glog[i].outcome
            /\ gres.kind = glog[i].outcome.kind
            /\ gres.kind # "ConnectionError"

\* C7 witness: a 429 on the second attempt, after a retried 500
C7_Witness ==
    /\ gpc = "ret"
    /\ Len(Attempts) = 2
    /\ Attempts[1].outcome.status = 500
    /\ Attempts[2].outcome.status = 429
    /\ gres.kind = "APIStatusError"

\* C8: the log of a call alternates attempt, 1 s, attempt, 3 s, attempt:
\* a wait only follows a failed attempt that another attempt follows, so no
\* wait comes first, after the last failure or after a success, and the
\* waits are a prefix of <<1, 3>>.
C8_WaitsOnlyBetweenAttempts ==
    /\ \A i \in DOMAIN glog :
        IF i % 2 = 1
        THEN glog[i].what = "attempt"
        ELSE glog[i].what = "sleep" /\ glog[i].delay = BACKOFF_DELAYS[i \div 2]
    /\ Len(Waits) <= Len(BACKOFF_DELAYS)
    /\ Waits = SubSeq(<<1, 3>>, 1, Len(Waits))
    /\ gpc \in {"ret", "idle"} => Len(Waits) = Len(Attempts) - (IF glog = <<>> THEN 0 ELSE 1)

\* C8 witness: a call that slept 1 s and 3 s and failed for good
C8_Witness ==
    /\ gpc = "ret"
    /\ Waits = <<1, 3>>
    /\ Len(Attempts) = 3
    /\ gres.kind = "ConnectionError"

(***************************************************************************)
(* Part 3: query log (structured_logger.py)                                *)
(***************************************************************************)

\* EntryDict as it would be if the error argument were not copied
EntryDictNoError(rid, err) == [request_id |-> rid, error |-> "null"]

\* the dict "entry" of log_query; of its twelve fields the model keeps the
\* two the claims read
EntryDict(rid, err) == [request_id |-> rid, error |-> err]

\* json.dumps(entry) + "\n": the text of one line
JsonLine(entry) ==
    [text |-> <<"request_id", entry.request_id, "error", entry.error>>, nl |-> TRUE]

NoEntry == [request_id |-> -1, error |-> "null"]

\* _parse_log_line: the LogEntry of a line, NoEntry (None) for a line that
\* is no complete JSON object with the fields of LogEntry; line.strip()
\* takes the newline off, if there is one
ParseLogLine(line) ==
    IF /\ Len(line.text) = 4
       /\ line.text[1] = "request_id"
       /\ line.text[3] = "error"
    THEN [request_id |-> line.text[2], error |-> line.text[4]]
    ELSE NoEntry

\* get_all_logs() over the files as given: the parsed lines of the file at
\* LOG_FILE_PATH in file order, the unparsable ones left out
GetAllLogsOf(files, ino) ==
    IF ino = 0 THEN <<>>
    ELSE LET parsed == [i \in DOMAIN files[ino] |-> ParseLogLine(files[ino][i])]
         IN SelectSeq(parsed, LAMBDA e : e # NoEntry)

get_all_logs == GetAllLogsOf(inodes, activeIno)

\* a line left by an earlier run
OldLine == JsonLine(EntryDict(0, "null"))

\* the log directory as a fresh process finds it: no log file (k = -1), or
\* one of k lines
LogStart(k) ==
    /\ IF k = -1
       THEN inodes = <<>> /\ activeIno = 0
       ELSE inodes = <<[i \in 1..k |-> OldLine]>> /\ activeIno = 1
    /\ rotated = {}
    /\ lpc = [t \in Threads |-> "idle"]
    /\ lentry = [t \in Threads |-> NoEntry]
    /\ lfd = [t \in Threads |-> 0]

LogInit == \E k \in -1..RotateAtLines : LogStart(k)

LGoto(t, p) == lpc' = [lpc EXCEPT ![t] = p]

\* log_query(request_id, ..., error) is entered: lines 120-136
LogEnter(t, rid, err) ==
    /\ lpc[t] = "idle"
    /\ lentry' = [lentry EXCEPT ![t] = EntryDict(rid, err)]
    /\ LGoto(t, "rot_exists")
    /\ UNCHANGED <<inodes, activeIno, rotated, lfd>>

\* _rotate_if_needed, lines 68-69
RotExists(t) ==
    /\ lpc[t] = "rot_exists"
    /\ LGoto(t, IF activeIno = 0 THEN "open" ELSE "rot_size")
    /\ UNCHANGED <<inodes, activeIno, rotated, lentry, lfd>>

\* does a file of this many lines reach _ROTATION_THRESHOLD_BYTES
ReachesThreshold(n) == n >= RotateAtLines

\* _rotate_if_needed, lines 71-73; os.path.getsize of a file that is gone
\* raises OSError, which line 92 catches
RotSize(t) ==
    /\ lpc[t] = "rot_size"
    /\ LGoto(t, IF activeIno # 0 /\ ReachesThreshold(Len(inodes[activeIno]))
                THEN "rot_rename" ELSE "open")
    /\ UNCHANGED <<inodes, activeIno, rotated, lentry, lfd>>

\* _rotate_if_needed, lines 76-90: rename the file to queries_<now>.jsonl,
\* replacing a file rotated within the same second, then remove the rotated
\* files older than 30 days; os.rename of a file that is gone raises OSError
RotRename(t) ==
    /\ lpc[t] = "rot_rename"
    /\ IF activeIno = 0
       THEN UNCHANGED <<activeIno, rotated>>
       ELSE /\ activeIno' = 0
            /\ \E replaced \in SUBSET rotated, old \in SUBSET rotated :
                /\ Cardinality(replaced) <= 1
                /\ rotated' = ((rotated \ replaced) \cup {activeIno}) \ old
    /\ LGoto(t, "open")
    /\ UNCHANGED <<inodes, lentry, lfd>>

\* open(settings.LOG_FILE_PATH, "a"), line 139: mode "a" creates the file
\* when there is none
LogOpen(t) ==
    /\ lpc[t] = "open"
    /\ IF activeIno = 0
       THEN /\ inodes' = Append(inodes, <<>>)
            /\ activeIno' = Len(inodes) + 1
       ELSE UNCHANGED <<inodes, activeIno>>
    /\ lfd' = [lfd EXCEPT ![t] = activeIno']
    /\ LGoto(t, "write")
    /\ UNCHANGED <<rotated, lentry>>

\* fh.write(json.dumps(entry) + "\n") and the close of the with block,
\* line 140: the line goes to the end of the file the handle is open on
LogWrite(t) ==
    /\ lpc[t] = "write"
    /\ inodes' = [inodes EXCEPT ![lfd[t]] = Append(@, JsonLine(lentry[t]))]
    /\ lfd' = [lfd EXCEPT ![t] = 0]
    /\ LGoto(t, "ret")
    /\ UNCHANGED <<activeIno, rotated, lentry>>

\* open raises OSError: lines 142-143 log the failure, nothing is written
LogOpenFails(t) ==
    /\ lpc[t] = "open"
    /\ LGoto(t, "ret")
    /\ UNCHANGED <<inodes, activeIno, rotated, lentry, lfd>>

\* log_query returns None
LogReturn(t) ==
    /\ lpc[t] = "ret"
    /\ lentry' = [lentry EXCEPT ![t] = NoEntry]
    /\ LGoto(t, "idle")
    /\ UNCHANGED <<inodes, activeIno, rotated, lfd>>

LogStep(t) == RotExists(t) \/ RotSize(t) \/ RotRename(t) \/ LogOpen(t) \/ LogWrite(t)

\* every line ever written to a file of the log directory, removed files included
RECURSIVE LinesOf(_, _)
LinesOf(files, n) == IF n = 0 THEN <<>> ELSE LinesOf(files, n - 1) \o files[n]

AllLines == LinesOf(inodes, Len(inodes))

\* the lines written for request rid
LinesFor(rid) == SelectSeq(AllLines, LAMBDA l : ParseLogLine(l).request_id = rid)

(***************************************************************************)
(* Part 4: query endpoint (routes_query.py) and pipeline (rag/pipeline)    *)
(***************************************************************************)

NoRequest == [request_id |-> 0, stream |-> FALSE, blank |-> FALSE]
NoResponse == [status |-> 0, x_request_id |-> 0, body_request_id |-> 0]

QueryInit ==
    /\ qpc = [t \in Threads |-> "idle"]
    /\ qreq = [t \in Threads |-> NoRequest]
    /\ qerr = [t \in Threads |-> "null"]
    /\ events = [t \in Threads |-> <<>>]
    /\ response = [t \in Threads |-> NoResponse]
    /\ nextReq = 1

QGoto(t, p) == qpc' = [qpc EXCEPT ![t] = p]

\* POST /api/query arrives; request_id = str(uuid.uuid4()), line 57
QueryCall(t) ==
    /\ qpc[t] = "idle"
    /\ nextReq <= MaxRequests
    /\ \E st \in BOOLEAN, bl \in BOOLEAN :
        qreq' = [qreq EXCEPT ![t] = [request_id |-> nextReq, stream |-> st, blank |-> bl]]
    /\ nextReq' = nextReq + 1
    /\ QGoto(t, "route")
    /\ UNCHANGED <<qerr, events, response, logVars>>

\* query_endpoint, lines 60-67 and 91: a blank query is answered 400; a
\* streaming request gets its EventSourceResponse, whose generator then runs
\* the pipeline; otherwise the pipeline is awaited
RouteValidate(t) ==
    /\ qpc[t] = "route"
    /\ IF qreq[t].blank
       THEN /\ response' = [response EXCEPT ![t] =
                    [status |-> 400, x_request_id |-> qreq[t].request_id, body_request_id |-> 0]]
            /\ QGoto(t, "ret")
       ELSE IF qreq[t].stream
       THEN /\ response' = [response EXCEPT ![t] =
                    [status |-> 200, x_request_id |-> 0, body_request_id |-> 0]]
            /\ QGoto(t, "retrieve")
       ELSE /\ QGoto(t, "retrieve")
            /\ UNCHANGED response
    /\ UNCHANGED <<qreq, qerr, events, nextReq, logVars>>

\* pipeline steps 3-4: classify (total) and retrieve, which may fail
PipelineRetrieve(t) ==
    /\ qpc[t] = "retrieve"
    /\ \/ QGoto(t, "generate") /\ UNCHANGED qerr
       \/ /\ qerr' = [qerr EXCEPT ![t] = "Exception"]
          /\ QGoto(t, "log")
    /\ UNCHANGED <<qreq, events, response, nextReq, logVars>>

\* what GroqClient.generate ends with, as the pipeline tells them apart
GenerateOutcomes == {"response", "ConnectionError", "Exception"}

\* pipeline steps 5-6: assemble the messages and call the generation client
PipelineGenerate(t) ==
    /\ qpc[t] = "generate"
    /\ \E o \in GenerateOutcomes :
        IF o = "response"
        THEN QGoto(t, IF qreq[t].stream THEN "stream" ELSE "log") /\ UNCHANGED qerr
        ELSE qerr' = [qerr EXCEPT ![t] = o] /\ QGoto(t, "log")
    /\ UNCHANGED <<qreq, events, response, nextReq, logVars>>

\* streaming: a non-empty token fragment is emitted as a token event
PipelineStreamToken(t) ==
    /\ qpc[t] = "stream"
    /\ Len(events[t]) < MaxTokens
    /\ events' = [events EXCEPT ![t] = Append(@, [event |-> "token", request_id |-> 0, status_code |-> 0])]
    /\ UNCHANGED <<qpc, qreq, qerr, response, nextReq, logVars>>

\* streaming: the upstream stream breaks, or the consumer stops reading
PipelineStreamFails(t) ==
    /\ qpc[t] = "stream"
    /\ \E e \in {"Exception", "Cancelled"} : qerr' = [qerr EXCEPT ![t] = e]
    /\ QGoto(t, "log")
    /\ UNCHANGED <<qreq, events, response, nextReq, logVars>>

\* streaming: the terminal chunk arrived
PipelineStreamEnds(t) ==
    /\ qpc[t] = "stream"
    /\ QGoto(t, "log")
    /\ UNCHANGED <<qreq, qerr, events, response, nextReq, logVars>>

\* pipeline step 9, and its counterpart on failure: the structured log entry
\* is appended by log_query, error carrying the cause
PipelineLog(t) ==
    /\ qpc[t] = "log"
    /\ LogEnter(t, qreq[t].request_id, qerr[t])
    /\ QGoto(t, "logging")
    /\ UNCHANGED <<qreq, qerr, events, response, nextReq>>

\* log_query has returned; the pipeline returns its result, raises its
\* error, or emits the closing event of the stream
PipelineFinish(t) ==
    /\ qpc[t] = "logging"
    /\ LogReturn(t)
    /\ IF qreq[t].stream
       THEN /\ events' = [events EXCEPT ![t] =
                    IF qerr[t] = "null"
                    THEN Append(@, [event |-> "done", request_id |-> qreq[t].request_id,
                                    status_code |-> 0])
                    ELSE IF qerr[t] = "Cancelled" THEN @
                    ELSE Append(@, [event |-> "error", request_id |-> qreq[t].request_id,
                                    status_code |-> IF qerr[t] = "ConnectionError"
                                                    THEN 503 ELSE 500])]
            /\ QGoto(t, "ret")
       ELSE /\ QGoto(t, "respond")
            /\ UNCHANGED events
    /\ UNCHANGED <<qreq, qerr, response, nextReq>>

\* event_generator as it would be if it went on reading the pipeline after
\* its error event
StreamGeneratorCatchesGoesOn(t) ==
    /\ qpc[t] = "logging"
    /\ qreq[t].stream /\ qerr[t] \notin {"null", "Cancelled"}
    /\ LogReturn(t)
    /\ events' = [events EXCEPT ![t] =
            Append(@, [event |-> "error", request_id |-> qreq[t].request_id,
                       status_code |-> 500])]
    /\ QGoto(t, "stream")
    /\ UNCHANGED <<qreq, qerr, response, nextReq>>

\* event_generator, lines 68-89: the pipeline, its log line written, lets
\* the exception out instead of emitting the error event itself; "except
\* Exception" yields one error event (status_code 500) and the generator
\* ends.  A cancellation is not an Exception and is not caught.
StreamGeneratorCatches(t) ==
    /\ qpc[t] = "logging"
    /\ qreq[t].stream /\ qerr[t] \notin {"null", "Cancelled"}
    /\ LogReturn(t)
    /\ events' = [events EXCEPT ![t] =
            Append(@, [event |-> "error", request_id |-> qreq[t].request_id,
                       status_code |-> 500])]
    /\ QGoto(t, "ret")
    /\ UNCHANGED <<qreq, qerr, response, nextReq>>

\* RouteRespond as it would be if every pipeline outcome were answered 500
RouteRespondAll500(t) ==
    /\ qpc[t] = "respond"
    /\ response' = [response EXCEPT ![t] =
            [status |-> 500, x_request_id |-> qreq[t].request_id,
             body_request_id |-> qreq[t].request_id]]
    /\ QGoto(t, "ret")
    /\ UNCHANGED <<qreq, qerr, events, nextReq, logVars>>

\* query_endpoint, lines 94-128: 200 for a result, 503 for ConnectionError,
\* 500 for any other exception
RouteRespond(t) ==
    /\ qpc[t] = "respond"
    /\ response' = [response EXCEPT ![t] =
            IF qerr[t] = "null"
            THEN [status |-> 200, x_request_id |-> qreq[t].request_id,
                  body_request_id |-> qreq[t].request_id]
            ELSE [status |-> IF qerr[t] = "ConnectionError" THEN 503 ELSE 500,
                  x_request_id |-> qreq[t].request_id,
                  body_request_id |-> qreq[t].request_id]]
    /\ QGoto(t, "ret")
    /\ UNCHANGED <<qreq, qerr, events, nextReq, logVars>>

\* the request is over
QueryReturn(t) ==
    /\ qpc[t] = "ret"
    /\ qpc' = [qpc EXCEPT ![t] = "idle"]
    /\ qreq' = [qreq EXCEPT ![t] = NoRequest]
    /\ qerr' = [qerr EXCEPT ![t] = "null"]
    /\ events' = [events EXCEPT ![t] = <<>>]
    /\ response' = [response EXCEPT ![t] = NoResponse]
    /\ UNCHANGED <<nextReq, logVars>>

QueryStep(t) ==
    \/ RouteValidate(t) \/ PipelineRetrieve(t) \/ PipelineGenerate(t)
    \/ PipelineStreamToken(t) \/ PipelineStreamFails(t) \/ PipelineStreamEnds(t)
    \/ PipelineLog(t) \/ PipelineFinish(t) \/ StreamGeneratorCatches(t)
    \/ RouteRespond(t) \/ QueryReturn(t)

\* a log_query() call of its own, for the specification of concurrent calls
LogCall(t) ==
    /\ nextReq <= MaxRequests
    /\ \E err \in {"null", "Exception"} : LogEnter(t, nextReq, err)
    /\ nextReq' = nextReq + 1
    /\ UNCHANGED <<qpc, qreq, qerr, events, response>>

(***************************************************************************)
(* Parts 3 and 4: claims                                                   *)
(***************************************************************************)

C10_WriteLandsInLogFile ==
    [][\A t \in Threads :
        (lpc[t] = "write" /\ lpc'[t] = "ret") =>
            \E i \in DOMAIN GetAllLogsOf(inodes', activeIno') :
                GetAllLogsOf(inodes', activeIno')[i] = lentry[t]]_vars

\* C22: a non-streaming query is answered 200 when the pipeline returns,
\* 503 when it fails with ConnectionError and 500 when it fails with any
\* other exception, and the body of the 503 and of the 500 carries the
\* request id.
C22_StatusFollowsPipelineOutcome ==
    \A t \in Threads :
        (qpc[t] = "ret" /\ ~qreq[t].stream /\ ~qreq[t].blank) =>
            /\ response[t].status =
                 (IF qerr[t] = "null" THEN 200
                  ELSE IF qerr[t] = "ConnectionError" THEN 503 ELSE 500)
            /\ response[t].status \in {500, 503} =>
                 response[t].body_request_id = qreq[t].request_id

\* C22 witness: generation was unreachable and the query was answered 503
C22_Witness ==
    \E t \in Threads :
        /\ qpc[t] = "ret" /\ ~qreq[t].stream
        /\ qerr[t] = "ConnectionError"
        /\ response[t].status = 503
        /\ response[t].body_request_id = qreq[t].request_id

\* C23: every response of the query endpoint, the streaming response
\* included, has the X-Request-Id header with the id of its request.
C23_EveryResponseHasRequestIdHeader ==
    \A t \in Threads :
        response[t].status # 0 => response[t].x_request_id = qreq[t].request_id

\* the error events of the stream of task t, by position
ErrorEvents(t) == {i \in DOMAIN events[t] : events[t][i].event = "error"}

\* C24: a stream has at most one error event, which carries the request id
\* and a status code and is the last event of the stream; a stream that
\* ended on an error (the consumer still reading) has its error event.
C24_ErrorEventEndsStream ==
    \A t \in Threads :
        /\ Cardinality(ErrorEvents(t)) <= 1
        /\ \A i \in ErrorEvents(t) :
            /\ i = Len(events[t])
            /\ events[t][i].request_id = qreq[t].request_id
            /\ events[t][i].status_code \in {500, 503}
        /\ (qpc[t] = "ret" /\ qreq[t].stream /\ ~qreq[t].blank
              /\ qerr[t] \notin {"null", "Cancelled"}) => ErrorEvents(t) # {}

\* C24 witness: the upstream was unreachable, the exception reached
\* event_generator, and the stream ended with its one event, error 500
C24_Witness ==
    \E t \in Threads :
        /\ qpc[t] = "ret" /\ qreq[t].stream /\ qerr[t] = "ConnectionError"
        /\ Len(events[t]) = 1
        /\ events[t][1].event = "error" /\ events[t][1].status_code = 500

(***************************************************************************)
(* Part 5: application -- lifespan (main.py), POST /api/ingest             *)
(* (routes_ingest.py, ingestion.py) and retrieve() (retriever.py)          *)
(*                                                                         *)
(* ingest_endpoint is a coroutine of the one event loop of the process: it *)
(* runs until it awaits, and ingest_pdf is called in it without an await.  *)
(* A query's retrieve() may run on the loop or on a worker thread, so its  *)
(* steps are free to fall between the steps of anything else.  Queries     *)
(* only read the store and do not affect one another, so one query at a    *)
(* time is followed, on task Searcher, next to the ingest requests.        *)
(***************************************************************************)

AppInit ==
    /\ app = "starting"
    /\ running = 0
    /\ hpc = [t \in Threads |-> "idle"]
    /\ hrecords = [t \in Threads |-> <<>>]
    /\ hcalls = [t \in Threads |-> <<>>]
    /\ hsnap = [t \in Threads |-> NoSnap]
    /\ hstatus = [t \in Threads |-> 0]
    /\ published = {}
    /\ mustSee = [t \in Threads |-> {}]

\* the frame of the store call made by task t is left alone
StoreFrameUnchanged == UNCHANGED <<pc, op, arg, tmp, res, out, snap>>

StoreUnchanged == UNCHANGED <<loaded, index, metadata, faissFile, pklFile>>

\* ------------------------------------------------------------- lifespan --

\* the thread that runs the lifespan
Main == 1

\* lifespan, line 49: vector_store.load()
LifespanLoad ==
    /\ app = "starting"
    /\ app' = "loading"
    /\ CallLoad(Main)
    /\ UNCHANGED <<running, hpc, hrecords, hcalls, hsnap, hstatus, published, mustSee>>

\* LifespanCatches as it would be if every exception were caught
LifespanCatchesAll(r) == r # "ok"

\* "except FileNotFoundError", line 67: the one exception startup survives
LifespanCatches(r) == r = "FileNotFoundError"

\* lifespan, lines 50-73: load() has returned or raised; startup goes on to
\* "yield" when nothing was raised or the exception is caught, and fails
\* otherwise
LifespanDone ==
    /\ app = "loading"
    /\ pc[Main] = "ret"
    /\ app' = IF res[Main] = "ok"
              THEN IF index.d # EMBEDDING_DIM THEN "aborted" ELSE "serving"   \* lines 50-61
              ELSE IF LifespanCatches(res[Main]) THEN "serving" ELSE "aborted"
    /\ Return(Main)
    /\ UNCHANGED <<running, hpc, hrecords, hcalls, hsnap, hstatus, published, mustSee>>

\* --------------------------------------------------------------- ingest --

\* Suspends as it would be if ingest_pdf gave up the loop between add() and
\* persist()
SuspendsBeforePersist(p) == p \in {"read", "persist"}

\* the positions at which ingest_endpoint awaits: "await file.read()", line 88
Suspends(p) == p = "read"

\* task t goes on to position p, giving up the event loop if it awaits there
HGoto(t, p) ==
    /\ hpc' = [hpc EXCEPT ![t] = p]
    /\ running' = IF Suspends(p) THEN 0 ELSE t

\* the request ends with status code c (HTTPException or IngestResponse)
Respond(t, c) ==
    /\ hstatus' = [hstatus EXCEPT ![t] = c]
    /\ HGoto(t, "ret")

\* POST /api/ingest arrives and the loop starts the coroutine; lines 76-88:
\* the filename is refused (400) or the body is awaited
IngestCall(t) ==
    /\ app = "serving"
    /\ running = 0
    /\ hpc[t] = "idle" /\ pc[t] = "idle"
    /\ \/ Respond(t, 400)
       \/ HGoto(t, "read") /\ UNCHANGED hstatus
    /\ UNCHANGED <<app, hrecords, hcalls, hsnap, published, mustSee, storeVars>>

\* the awaited call is done and the loop, free, resumes the coroutine
IngestResume(t) ==
    /\ running = 0
    /\ hpc[t] # "idle" /\ Suspends(hpc[t])
    /\ running' = t
    /\ UNCHANGED <<app, hpc, hrecords, hcalls, hsnap, hstatus, published, mustSee, storeVars>>

\* lines 89-118: size, emptiness and header tests (400), saving the upload
\* (500 on OSError), then ingest_pdf is called
IngestCheck(t) ==
    /\ running = t
    /\ hpc[t] = "read"
    /\ \/ \E c \in {400, 500} : Respond(t, c)
       \/ HGoto(t, "extract") /\ UNCHANGED hstatus
    /\ UNCHANGED <<app, hrecords, hcalls, hsnap, published, mustSee, storeVars>>

\* ingest_pdf, lines 265-294: extract_text_from_pdf raises ValueError (no
\* text) or RuntimeError; chunk_text gives no chunk (ValueError, line 277);
\* or n chunks are embedded, all by the one model of dimension d, and made
\* into records with fresh ids.  routes_ingest, lines 123-131: ValueError is
\* answered 400, any other exception 500.
IngestExtract(t) ==
    /\ running = t
    /\ hpc[t] = "extract"
    /\ hsnap' = [hsnap EXCEPT ![t] = Snapshot]
    /\ \/ /\ \E c \in {400, 500} : Respond(t, c)
          /\ UNCHANGED <<hrecords, nextId>>
       \/ \E n \in 1..MaxBatch, d \in Dims :
            /\ nextId + n <= MaxChunks + 1
            /\ hrecords' = [hrecords EXCEPT ![t] =
                              [i \in 1..n |-> ChunkRecord(nextId + i - 1, d)]]
            /\ nextId' = nextId + n
            /\ HGoto(t, "add")
            /\ UNCHANGED hstatus
    /\ UNCHANGED <<app, hcalls, published, mustSee>>
    /\ StoreUnchanged /\ StoreFrameUnchanged

\* IngestAdd as it would be if ingest_pdf went to persist() without add()
IngestAddSkipped(t) ==
    /\ running = t
    /\ hpc[t] = "add"
    /\ HGoto(t, "persist")
    /\ UNCHANGED <<app, hrecords, hcalls, hsnap, hstatus, published, mustSee, storeVars>>

\* ingest_pdf, line 297: vector_store.add(records)
IngestAdd(t) ==
    /\ running = t
    /\ hpc[t] = "add"
    /\ Enter(t, "add", [NoArg EXCEPT !.records = hrecords[t]])
    /\ hcalls' = [hcalls EXCEPT ![t] =
                    Append(@, [m |-> "add", records |-> hrecords[t], res |-> "running"])]
    /\ HGoto(t, "adding")
    /\ UNCHANGED <<app, hrecords, hsnap, hstatus, published, mustSee, nextId>>

\* IngestAdded as it would be if the exception of add() were swallowed
IngestAddedIgnoresError(t) ==
    /\ running = t
    /\ hpc[t] = "adding" /\ pc[t] = "ret"
    /\ Return(t)
    /\ hcalls' = [hcalls EXCEPT ![t][Len(hcalls[t])].res = res[t]]
    /\ HGoto(t, "persist")
    /\ UNCHANGED <<app, hrecords, hsnap, hstatus, published, mustSee>>

\* add() has returned, and line 300 is next, or has raised ValueError, which
\* leaves ingest_pdf and is answered 400
IngestAdded(t) ==
    /\ running = t
    /\ hpc[t] = "adding" /\ pc[t] = "ret"
    /\ Return(t)
    /\ hcalls' = [hcalls EXCEPT ![t][Len(hcalls[t])].res = res[t]]
    /\ IF res[t] = "ok"
       THEN HGoto(t, "persist") /\ UNCHANGED hstatus
       ELSE Respond(t, IF res[t] = "ValueError" THEN 400 ELSE 500)
    /\ UNCHANGED <<app, hrecords, hsnap, published, mustSee>>

\* ingest_pdf, line 300: vector_store.persist()
IngestPersist(t) ==
    /\ running = t
    /\ hpc[t] = "persist"
    /\ Enter(t, "persist", NoArg)
    /\ hcalls' = [hcalls EXCEPT ![t] =
                    Append(@, [m |-> "persist", records |-> <<>>, res |-> "running"])]
    /\ HGoto(t, "persisting")
    /\ UNCHANGED <<app, hrecords, hsnap, hstatus, published, mustSee, nextId>>

\* persist() has returned: ingest_pdf returns records (lines 302-307) and the
\* endpoint answers 200 (lines 133-150); or it has raised, answered 500
IngestPersisted(t) ==
    /\ running = t
    /\ hpc[t] = "persisting" /\ pc[t] = "ret"
    /\ Return(t)
    /\ hcalls' = [hcalls EXCEPT ![t][Len(hcalls[t])].res = res[t]]
    /\ IF res[t] = "ok"
       THEN /\ published' = published \cup {hrecords[t][i].chunk_id : i \in DOMAIN hrecords[t]}
            /\ Respond(t, 200)
       ELSE /\ Respond(t, 500)
            /\ UNCHANGED published
    /\ UNCHANGED <<app, hrecords, hsnap, mustSee>>

\* the response is out; the coroutine is over and the loop is free
IngestReturn(t) ==
    /\ running = t
    /\ hpc[t] = "ret"
    /\ hpc' = [hpc EXCEPT ![t] = "idle"]
    /\ running' = 0
    /\ hrecords' = [hrecords EXCEPT ![t] = <<>>]
    /\ hcalls' = [hcalls EXCEPT ![t] = <<>>]
    /\ hsnap' = [hsnap EXCEPT ![t] = NoSnap]
    /\ hstatus' = [hstatus EXCEPT ![t] = 0]
    /\ UNCHANGED <<app, published, mustSee, storeVars>>

\* a step inside the add() or persist() that ingest_pdf is in
IngestStoreStep(t) ==
    /\ running = t
    /\ hpc[t] \in {"adding", "persisting"}
    /\ pc[t] # "ret"
    /\ Step(t)
    /\ UNCHANGED appVars

IngestStep(t) ==
    \/ IngestResume(t) \/ IngestCheck(t) \/ IngestExtract(t)
    \/ IngestAdd(t) \/ IngestAdded(t) \/ IngestPersist(t) \/ IngestPersisted(t)
    \/ IngestReturn(t) \/ IngestStoreStep(t)

\* ------------------------------------------------------------- retrieve --

\* the task on which the query is followed
Searcher == NumThreads

\* a query reaches retrieve(), lines 176-177: the query is embedded and
\* vector_store.search(query_embedding, k=k) is called, k being
\* settings.TOP_K (here MaxK)
RetrieveCall(t) ==
    /\ app = "serving"
    /\ t = Searcher
    /\ hpc[t] = "idle" /\ pc[t] = "idle"
    /\ hpc' = [hpc EXCEPT ![t] = "retrieve"]
    /\ mustSee' = [mustSee EXCEPT ![t] = published]
    /\ \E q \in Probes : Enter(t, "search", [NoArg EXCEPT !.q = q, !.k = MaxK])
    /\ UNCHANGED nextId
    /\ UNCHANGED <<app, running, hrecords, hcalls, hsnap, hstatus, published>>

\* a step inside search()
RetrieveStoreStep(t) ==
    /\ hpc[t] = "retrieve"
    /\ pc[t] # "ret"
    /\ Step(t)
    /\ UNCHANGED appVars

\* search() has returned its results to retrieve()
RetrieveReturn(t) ==
    /\ hpc[t] = "retrieve" /\ pc[t] = "ret"
    /\ Return(t)
    /\ hpc' = [hpc EXCEPT ![t] = "idle"]
    /\ mustSee' = [mustSee EXCEPT ![t] = {}]
    /\ UNCHANGED <<app, running, hrecords, hcalls, hsnap, hstatus, published>>

RetrieveStep(t) == RetrieveStoreStep(t) \/ RetrieveReturn(t)

\* the lifespan's load() runs before the first request is taken
LifespanStep ==
    \/ LifespanLoad
    \/ app = "loading" /\ pc[Main] # "ret" /\ Step(Main) /\ UNCHANGED appVars
    \/ LifespanDone

(***************************************************************************)
(* Part 5: claims                                                          *)
(***************************************************************************)

\* task t is inside ingest_pdf, between the call of add() and the return
\* of persist()
InIngestion(t) == hpc[t] \in {"add", "adding", "persist", "persisting"}

\* C11: at most one ingest request is between its add() and the end of its
\* persist(): the add() and persist() steps of two requests never interleave.
C11_OneIngestionInFlight ==
    \A t, u \in Threads : (InIngestion(t) /\ InIngestion(u)) => t = u

\* C11 witness: one request is inside persist() while another, which has
\* arrived, waits for its body to be read
C11_Witness ==
    \E t, u \in Threads :
        /\ hpc[t] = "persisting" /\ pc[t] = "persist_dump"
        /\ hpc[u] = "read"

\* the chunk ids of the vectors in the index
IndexedIds == {index.vecs[i].v : i \in DOMAIN index.vecs}

\* C12: the search of a query runs over an index that holds every chunk of
\* every ingestion that had returned when the query started.
C12_QuerySeesPublishedChunks ==
    \A t \in Threads :
        hpc[t] = "retrieve" => mustSee[t] \subseteq IndexedIds

\* C12 witness: a query that started after an ingestion of two chunks had
\* returned is about to search the index
C12_Witness ==
    \E t \in Threads :
        /\ hpc[t] = "retrieve" /\ pc[t] = "search_index"
        /\ Cardinality(mustSee[t]) >= 2

\* the files hold a persisted pair whose index has another dimension
WrongDimensionOnDisk ==
    /\ faissFile.state = "ok" /\ exists(pklFile)
    /\ faissFile.content.d # EMBEDDING_DIM

\* C14: over a persisted index of a dimension other than 384, load() fails
\* and installs nothing (the store stays not loaded, without index and
\* sidecar), startup aborts, and no ingest or query request is served.
C14_WrongDimensionAbortsStartup ==
    WrongDimensionOnDisk =>
        /\ ~loaded /\ index = NoIndex /\ metadata = <<>>
        /\ app # "serving"
        /\ \A t \in Threads : hpc[t] = "idle"
        /\ \A t \in Threads : (pc[t] = "ret" /\ op[t] = "load") => res[t] = "RuntimeError"

\* C14 witness: startup has aborted over an index of dimension 128
C14_Witness ==
    /\ app = "aborted"
    /\ WrongDimensionOnDisk
    /\ faissFile.content.d = 128

\* the names of the vector_store calls ingest_pdf has made, in order
CallNames(t) == [i \in DOMAIN hcalls[t] |-> hcalls[t][i].m]

\* C17: an ingest_pdf() that succeeded has called add() once, with all its
\* records, and then persist() once; one that failed in extraction or
\* chunking or whose add() was refused has not called persist() and has left
\* the store in memory and its files as they were.
C17_AddThenPersistOnce ==
    \A t \in Threads :
        /\ CallNames(t) \in {<<>>, <<"add">>, <<"add", "persist">>}
        /\ hcalls[t] # <<>> => hcalls[t][1].records = hrecords[t]
        /\ Len(hcalls[t]) = 2 => hcalls[t][1].res = "ok"
        /\ hpc[t] = "ret" =>
            IF hstatus[t] = 200
            THEN /\ CallNames(t) = <<"add", "persist">>
                 /\ hcalls[t][2].res = "ok"
                 /\ hrecords[t] # <<>>
            ELSE /\ CallNames(t) \in {<<>>, <<"add">>}
                 /\ hsnap[t] # NoSnap =>
                      /\ index = hsnap[t].index /\ metadata = hsnap[t].metadata
                      /\ faissFile = hsnap[t].faiss /\ pklFile = hsnap[t].pkl

\* C17 witness: an ingestion of two chunks was refused by add() (another
\* embedding dimension) on a store that holds chunks, and was answered 400
C17_Witness ==
    \E t \in Threads :
        /\ hpc[t] = "ret" /\ hstatus[t] = 400
        /\ CallNames(t) = <<"add">> /\ hcalls[t][1].res = "ValueError"
        /\ Len(hrecords[t]) = 2
        /\ ntotal(index) >= 1

(***************************************************************************)
(* Part 6: router (deterministic_router.py)                                *)
(*                                                                         *)
(* A query is a line of words: first the marker words it has ("compare", a *)
(* complexity keyword; "recommend", an ambiguity marker; "refund", a       *)
(* complaint marker; "better than", a comparison pattern), then its plain  *)
(* words, of which the first "periods" end in a full stop, and at the very *)
(* end its question marks.  A query without words is its question marks.   *)
(***************************************************************************)

MaxMarks == 3         \* question marks, and full stops, of a query
MaxClassify == 2      \* classify_query calls on one query

\* numbers of plain words, around the thresholds 3, 25 and 40 of the tree
PlainWordCounts == {0, 1, 2, 3, 4, 24, 25, 26, 39, 40, 41}

Queries ==
    { q \in [plain : PlainWordCounts, kw : BOOLEAN, amb : BOOLEAN, compl : BOOLEAN,
             cmp : BOOLEAN, questions : 0..MaxMarks, periods : 0..MaxMarks] :
        q.periods <= (IF q.plain = 0 THEN 0 ELSE q.plain - 1) }

\* the words of the query
Words(q) ==
    q.plain + (IF q.kw THEN 1 ELSE 0) + (IF q.amb THEN 1 ELSE 0)
            + (IF q.compl THEN 1 ELSE 0) + (IF q.cmp THEN 2 ELSE 0)

\* _extract_features, lines 92-117
extract_features(q) ==
    [ word_count |-> IF Words(q) = 0 /\ q.questions > 0 THEN 1 ELSE Words(q),  \* len(split())
      question_count |-> q.questions,                                          \* count("?")
      \* [.?!](?:\s|$): every full stop before a blank, the last question mark
      sentence_count |-> q.periods + (IF q.questions > 0 THEN 1 ELSE 0),
      has_complexity_keywords |-> q.kw,
      has_ambiguity_markers |-> q.amb,
      has_complaint_markers |-> q.compl,
      has_comparison_pattern |-> q.cmp ]

\* lines 162-170
complexity_score(f) ==
    (IF f.has_complexity_keywords THEN 2 ELSE 0)
    + (IF f.has_ambiguity_markers THEN 2 ELSE 0)
    + (IF f.word_count > 40 THEN 1 ELSE 0)
    + (IF f.sentence_count >= 3 THEN 1 ELSE 0)

\* classify_query as it would be with the complaint test before the test
\* for short queries
classify_queryComplaintFirst(q) ==
    LET f == extract_features(q) IN
    IF f.has_complaint_markers THEN "complex"
    ELSE IF f.word_count <= 3 /\ f.question_count <= 1 /\ ~f.has_complexity_keywords
    THEN "simple"
    ELSE IF f.question_count >= 3 THEN "complex"
    ELSE IF f.has_comparison_pattern THEN "complex"
    ELSE IF complexity_score(f) >= 2 THEN "complex"
    ELSE IF f.word_count > 25 /\ f.has_ambiguity_markers THEN "complex"
    ELSE "simple"

\* classify_query, lines 138-181
classify_query(q) ==
    LET f == extract_features(q) IN
    IF f.word_count <= 3 /\ f.question_count <= 1 /\ ~f.has_complexity_keywords
    THEN "simple"
    ELSE IF f.has_complaint_markers THEN "complex"
    ELSE IF f.question_count >= 3 THEN "complex"
    ELSE IF f.has_comparison_pattern THEN "complex"
    ELSE IF complexity_score(f) >= 2 THEN "complex"
    ELSE IF f.word_count > 25 /\ f.has_ambiguity_markers THEN "complex"
    ELSE "simple"

RouterStart(q) == rquery = q /\ rout = <<>>

RouterInit == \E q \in Queries : RouterStart(q)

\* classify_query(query) is called
Classify ==
    /\ Len(rout) < MaxClassify
    /\ rout' = Append(rout, classify_query(rquery))
    /\ UNCHANGED rquery

(***************************************************************************)
(* Part 6: claims                                                          *)
(***************************************************************************)

\* the score of node 5 of the decision tree
TreeScore(f) ==
    (IF f.has_complexity_keywords THEN 2 ELSE 0) + (IF f.has_ambiguity_markers THEN 2 ELSE 0)
    + (IF f.word_count > 40 THEN 1 ELSE 0) + (IF f.sentence_count >= 3 THEN 1 ELSE 0)

\* node n of the decision tree matches the features f
NodeMatches(n, f) ==
    CASE n = 1 -> f.word_count <= 3 /\ f.question_count <= 1 /\ ~f.has_complexity_keywords
      [] n = 2 -> f.has_complaint_markers
      [] n = 3 -> f.question_count >= 3
      [] n = 4 -> f.has_comparison_pattern
      [] n = 5 -> TreeScore(f) >= 2
      [] n = 6 -> f.word_count > 25 /\ f.has_ambiguity_markers
      [] OTHER -> TRUE

NodeOutcome(n) == IF n \in {1, 7} THEN "simple" ELSE "complex"

\* the first node, of 1 to 7 in order, that matches
FirstNode(f) == CHOOSE n \in 1..7 : NodeMatches(n, f) /\ \A m \in 1..(n - 1) : ~NodeMatches(m, f)

\* C18: classify_query gives every query exactly one of "simple" and
\* "complex", the outcome of the first node of the decision tree that
\* matches the query's features, and gives it again when called again.
C18_FirstMatchingNodeDecides ==
    /\ classify_query(rquery) \in {"simple", "complex"}
    /\ \A i \in DOMAIN rout :
        /\ rout[i] \in {"simple", "complex"}
        /\ rout[i] = NodeOutcome(FirstNode(extract_features(rquery)))
        /\ rout[i] = rout[1]

\* C18 witness: a query of three words with a complaint marker was
\* classified twice and is simple: node 1 matched before node 2
C18_Witness ==
    /\ Len(rout) = 2
    /\ rquery.compl /\ extract_features(rquery).word_count = 3
    /\ rout[1] = "simple" /\ rout[2] = "simple"

\* the queries nodes 1 to 5 leave undecided
PassesNodes1To5(f) == \A n \in 1..5 : ~NodeMatches(n, f)

\* C30: node 6 is reachable and decisive: of the queries with more than 25
\* words and an ambiguity marker, such as the one classified, some query
\* passes nodes 1 to 5 undecided and is classified "complex" by node 6.
C30_Node6Decides ==
    LET g == extract_features(rquery) IN
    (rout # <<>> /\ g.word_count > 25 /\ g.has_ambiguity_markers) =>
        \E q \in Queries :
            LET f == extract_features(q) IN
            /\ f.word_count > 25 /\ f.has_ambiguity_markers
            /\ PassesNodes1To5(f)
            /\ FirstNode(f) = 6 /\ classify_query(q) = "complex"

\* no query classified has node 6 as its first matching node: one that
\* matches node 6 has an ambiguity marker, which alone scores 2 at node 5
Node6NeverFirst ==
    LET f == extract_features(rquery) IN
    /\ FirstNode(f) # 6
    /\ NodeMatches(6, f) => ~PassesNodes1To5(f)

(***************************************************************************)
(* Part 7: retriever (retriever.py)                                        *)
(*                                                                         *)
(* Scores are counted in hundredths.  A text is the set of its characters, *)
(* which is all that _jaccard_similarity reads of it.                      *)
(***************************************************************************)

MaxResults == 3       \* chunks in the list a call works on

\* settings.SIMILARITY_THRESHOLD, the default of retrieve's threshold: 0.35
SIMILARITY_THRESHOLD == 35

\* the re-ranking boost of _apply_reranking_boost: 0.05
BOOST == 5

\* three texts: the first and the second are near-duplicates (5 of 6
\* characters shared), the second and the third too (6 of 7), the first and
\* the third are not (5 of 7)
Texts == {1..5, 1..6, 1..7}

SourceFiles == {"pricing_guide.pdf", "faq.pdf"}

\* scores below, at and above the threshold
RawScores == {30, 35, 40, 42}

\* the lowercased query of the calls: "what is the pricing"
QueryLower == {"what", "is", "the", "pricing"}

RetrievedChunks == [text : Texts, source_file : SourceFiles, score : RawScores]

\* _jaccard_similarity(a, b) > 0.80, lines 67-72 and 92
JaccardOver80(a, b) ==
    /\ a \cup b # {}
    /\ 5 * Cardinality(a \cap b) > 4 * Cardinality(a \cup b)

\* the accepted list after the candidate has been handled, lines 89-102:
\* the first accepted chunk it is similar to takes its fields if the
\* candidate scores higher; a candidate similar to none is appended
Accept(accepted, candidate) ==
    LET similar == {i \in DOMAIN accepted : JaccardOver80(candidate.text, accepted[i].text)}
    IN IF similar = {}
       THEN Append(accepted, candidate)
       ELSE LET first == CHOOSE i \in similar : \A j \in similar : i <= j
            IN IF candidate.score > accepted[first].score
               THEN [accepted EXCEPT ![first] = candidate]
               ELSE accepted

RECURSIVE DedupFrom(_, _)
DedupFrom(chunks, accepted) ==
    IF chunks = <<>> THEN accepted
    ELSE DedupFrom(Tail(chunks), Accept(accepted, Head(chunks)))

\* deduplicate(chunks), lines 83-104
deduplicate(chunks) == DedupFrom(chunks, <<>>)

\* _extract_filename_keywords, lines 121-123
extract_filename_keywords(source_file) ==
    CASE source_file = "pricing_guide.pdf" -> {"pricing", "guide"}
      [] source_file = "faq.pdf" -> {"faq"}
      [] OTHER -> {}

\* "kw in query_lower" for one of the keywords, lines 136-140
KeywordMatches(source_file, query_lower) ==
    extract_filename_keywords(source_file) \cap query_lower # {}

\* the list with chunk c put behind every chunk that scores as high as c
\* or higher
InsertByScore(sorted, c) ==
    LET before == SelectSeq(sorted, LAMBDA x : x.score >= c.score)
        after == SelectSeq(sorted, LAMBDA x : x.score < c.score)
    IN before \o <<c>> \o after

\* chunks.sort(key=score, reverse=True), line 142: stable, by score descending
RECURSIVE SortByScore(_)
SortByScore(chunks) ==
    IF chunks = <<>> THEN <<>>
    ELSE InsertByScore(SortByScore(SubSeq(chunks, 1, Len(chunks) - 1)), chunks[Len(chunks)])

\* apply_reranking_boost as it would be without the sort of line 142
apply_reranking_boostUnsorted(chunks, query_lower) ==
    [i \in DOMAIN chunks |->
        IF KeywordMatches(chunks[i].source_file, query_lower)
        THEN [chunks[i] EXCEPT !.score = @ + BOOST]
        ELSE chunks[i]]

\* _apply_reranking_boost, lines 135-143
apply_reranking_boost(chunks, query_lower) ==
    SortByScore([i \in DOMAIN chunks |->
        IF KeywordMatches(chunks[i].source_file, query_lower)
        THEN [chunks[i] EXCEPT !.score = @ + BOOST]
        ELSE chunks[i]])

\* the threshold filter of retrieve, lines 179-191
AboveThreshold(raw_results, threshold) ==
    SelectSeq(raw_results, LAMBDA r : ~(r.score < threshold))

\* retrieve as it would be if the boost came before the threshold filter
retrieveBoostFirst(raw_results, query_lower, threshold) ==
    deduplicate(AboveThreshold(apply_reranking_boost(raw_results, query_lower), threshold))

\* retrieve from line 179 on: raw_results are what vector_store.search gave
retrieve(raw_results, query_lower, threshold) ==
    deduplicate(apply_reranking_boost(AboveThreshold(raw_results, threshold), query_lower))

\* the results of a search come by score descending
ByScoreDescending(chunks) ==
    \A i, j \in DOMAIN chunks : i < j => chunks[i].score >= chunks[j].score

NoOutput == [fn |-> "none", result |-> <<>>]

RetrieverStart(l) == chunksIn = l /\ retOut = NoOutput

\* every list of up to MaxResults chunks
RetrieverInit ==
    \E n \in 0..MaxResults : \E l \in [1..n -> RetrievedChunks] : RetrieverStart(l)

\* retrieve(query) with the list as the results of its search
Retrieve ==
    /\ retOut = NoOutput
    /\ ByScoreDescending(chunksIn)
    /\ retOut' = [fn |-> "retrieve",
                  result |-> retrieve(chunksIn, QueryLower, SIMILARITY_THRESHOLD)]
    /\ UNCHANGED chunksIn

\* deduplicate(chunks) with the list
Deduplicate ==
    /\ retOut = NoOutput
    /\ retOut' = [fn |-> "deduplicate", result |-> deduplicate(chunksIn)]
    /\ UNCHANGED chunksIn

\* the caller has the list
RetrieverReturn ==
    /\ retOut # NoOutput
    /\ retOut' = NoOutput
    /\ UNCHANGED chunksIn

(***************************************************************************)
(* Part 7: claims                                                          *)
(***************************************************************************)

\* the boost a chunk of this source file gets for the query
BoostOf(source_file) == IF KeywordMatches(source_file, QueryLower) THEN BOOST ELSE 0

\* C19: every chunk retrieve() returns is one of the search results that
\* scored at least the threshold, with the boost of its own source file
\* added: its score less that boost is never below the threshold.
C19_ReturnedChunksPassedThreshold ==
    retOut.fn = "retrieve" =>
        \A i \in DOMAIN retOut.result :
            LET c == retOut.result[i] IN
            /\ c.score - BoostOf(c.source_file) >= SIMILARITY_THRESHOLD
            /\ \E j \in DOMAIN chunksIn :
                /\ chunksIn[j].score >= SIMILARITY_THRESHOLD
                /\ c = [chunksIn[j] EXCEPT !.score = @ + BoostOf(chunksIn[j].source_file)]

\* C19 witness: of three search results one, which the boost would have
\* lifted to the threshold, was dropped for its raw score, and one at the
\* threshold was returned with its boost
C19_Witness ==
    /\ retOut.fn = "retrieve"
    /\ Len(chunksIn) = 3
    /\ \E j \in DOMAIN chunksIn :
        /\ chunksIn[j].score = 30 /\ chunksIn[j].source_file = "pricing_guide.pdf"
    /\ \E i \in DOMAIN retOut.result :
        /\ retOut.result[i].score = 40 /\ retOut.result[i].source_file = "pricing_guide.pdf"
    /\ Len(retOut.result) >= 1

\* C20: the list deduplicate() returns holds no two chunks whose texts have
\* a character-set Jaccard similarity above 0.80.
C20_NoNearDuplicatesLeft ==
    retOut.fn = "deduplicate" =>
        \A i, j \in DOMAIN retOut.result :
            i # j => ~JaccardOver80(retOut.result[i].text, retOut.result[j].text)

\* C21: the list retrieve() returns is ordered by final (boosted) score
\* descending, deduplication included; of a faq.pdf chunk found with 0.42
\* and a pricing_guide.pdf chunk found with 0.40, texts apart, the pricing
\* chunk comes back first, with 0.45, for a query that has "pricing" in it.
C21_ReturnedByBoostedScore ==
    retOut.fn = "retrieve" =>
        /\ ByScoreDescending(retOut.result)
        /\ ( /\ Len(chunksIn) = 2
             /\ chunksIn[1].source_file = "faq.pdf" /\ chunksIn[1].score = 42
             /\ chunksIn[2].source_file = "pricing_guide.pdf" /\ chunksIn[2].score = 40
             /\ ~JaccardOver80(chunksIn[1].text, chunksIn[2].text) )
           => retOut.result = <<[chunksIn[2] EXCEPT !.score = 45], chunksIn[1]>>

\* C21 witness: retrieve() has returned the pricing chunk (0.40, boosted to
\* 0.45) before the faq chunk (0.42) that the search had put first
C21_Witness ==
    /\ retOut.fn = "retrieve"
    /\ Len(chunksIn) = 2
    /\ chunksIn[1].source_file = "faq.pdf" /\ chunksIn[1].score = 42
    /\ chunksIn[2].source_file = "pricing_guide.pdf" /\ chunksIn[2].score = 40
    /\ Len(retOut.result) = 2
    /\ retOut.result[1].score = 45 /\ retOut.result[2].score = 42

(***************************************************************************)
(* Part 8: output evaluator (output_evaluator.py)                          *)
(*                                                                         *)
(* A text is what the checks read of it: the phrases, the currency amounts *)
(* (matches of _PRICE_RE) and the proper nouns (matches of                 *)
(* _PROPER_NOUN_RE) it has.                                                *)
(***************************************************************************)

\* no call
NoCall == [fn |-> "none"]

CallStart(a) == callIn = a /\ callOut = NoCall

\* the caller has taken what the call returned
CallReturn ==
    /\ callOut # NoCall
    /\ callOut' = NoCall
    /\ UNCHANGED callIn

\* REFUSAL_PHRASES, lines 30-48
REFUSAL_PHRASES ==
    {"i cannot", "i can't", "i don't have information",
     "i don't have enough information", "i do not have", "i'm not sure",
     "i am not sure", "i'm unable to", "i am unable to", "outside my knowledge",
     "beyond my scope", "not able to help", "cannot assist with",
     "no information available", "unfortunately, i don't", "i apologize, but i",
     "i'm sorry, but i don't"}

\* ALLOWED_TERMS, line 54
ALLOWED_TERMS == {"Clearpath", "Clearpath Assistant"}

\* phrases a response may have, as written
ResponsePhrases == {"I cannot", "You can"}

Prices == {"$29.99"}

ProperNouns == {"Pro Plan", "Clearpath Assistant"}

\* str.lower() of a phrase
Lower(p) ==
    CASE p = "I cannot" -> "i cannot"
      [] p = "You can" -> "you can"
      [] OTHER -> p

ResponseTexts == [phrases : SUBSET ResponsePhrases, prices : SUBSET Prices,
                  names : SUBSET ProperNouns]

\* the chunk dicts handed to the evaluator, by their "text"
ChunkDicts == [prices : SUBSET Prices, names : SUBSET {"Pro Plan"}]

\* extract_prices and extract_proper_nouns over " ".join of the chunk texts
ChunkPrices(chunks) == UNION {chunks[i].prices : i \in DOMAIN chunks}

ChunkNames(chunks) == UNION {chunks[i].names : i \in DOMAIN chunks}

\* check_hallucination, lines 95-132
check_hallucination(response_text, retrieved_chunks) ==
    IF \E price \in response_text.prices : price \notin ChunkPrices(retrieved_chunks)
    THEN "potential_hallucination"
    ELSE IF \E name \in response_text.names :
                name \notin ChunkNames(retrieved_chunks) /\ name \notin ALLOWED_TERMS
    THEN "potential_hallucination"
    ELSE "None"

\* evaluate_output as it would be if Check 1 looked at the chunk list
evaluate_outputByChunkList(response_text, retrieval_count, retrieved_chunks) ==
    (IF retrieved_chunks = <<>> THEN <<"no_context_warning">> ELSE <<>>)
    \o (IF \E p \in response_text.phrases : Lower(p) \in REFUSAL_PHRASES
        THEN <<"refusal_detected">> ELSE <<>>)
    \o (IF check_hallucination(response_text, retrieved_chunks) # "None"
        THEN <<check_hallucination(response_text, retrieved_chunks)>> ELSE <<>>)

\* evaluate_output, lines 161-181: the flags of the three checks, in order
evaluate_output(response_text, retrieval_count, retrieved_chunks) ==
    (IF retrieval_count = 0 THEN <<"no_context_warning">> ELSE <<>>)
    \o (IF \E p \in response_text.phrases : Lower(p) \in REFUSAL_PHRASES
        THEN <<"refusal_detected">> ELSE <<>>)
    \o (IF check_hallucination(response_text, retrieved_chunks) # "None"
        THEN <<check_hallucination(response_text, retrieved_chunks)>> ELSE <<>>)

\* every response text, every retrieval count and every list of up to
\* MaxResults chunks
EvaluatorInit ==
    \E r \in ResponseTexts, c \in 0..MaxResults, n \in 0..MaxResults :
      \E l \in [1..n -> ChunkDicts] :
        CallStart([fn |-> "evaluate_output", response_text |-> r,
                   retrieval_count |-> c, retrieved_chunks |-> l])

\* flags = evaluate_output(...); response_text is the caller's string after
\* the call (a str is immutable and the function returns the flags only)
Evaluate ==
    /\ callIn.fn = "evaluate_output" /\ callOut = NoCall
    /\ callOut' = [fn |-> "evaluate_output",
                   flags |-> evaluate_output(callIn.response_text, callIn.retrieval_count,
                                             callIn.retrieved_chunks),
                   response_text |-> callIn.response_text]
    /\ UNCHANGED callIn

(***************************************************************************)
(* Part 8: claims                                                          *)
(***************************************************************************)

\* C25: the flags of evaluate_output hold no_context_warning exactly when
\* retrieval_count is 0, whatever the response text and the chunk list; the
\* response text is what it was.
C25_NoContextIffCountZero ==
    callOut.fn = "evaluate_output" =>
        /\ (\E i \in DOMAIN callOut.flags : callOut.flags[i] = "no_context_warning")
             <=> callIn.retrieval_count = 0
        /\ callOut.response_text = callIn.response_text

\* C25 witness: a count of 0 with a chunk list that is not empty, and a
\* response with a refusal phrase, is flagged no_context_warning first
C25_Witness ==
    /\ callOut.fn = "evaluate_output"
    /\ callIn.retrieval_count = 0 /\ callIn.retrieved_chunks # <<>>
    /\ Len(callOut.flags) >= 2
    /\ callOut.flags[1] = "no_context_warning" /\ callOut.flags[2] = "refusal_detected"

(***************************************************************************)
(* Part 9: log reader (structured_logger.py, get_all_logs)                 *)
(***************************************************************************)

MaxLogLines == 3      \* lines of the log file that is read

\* bytes that are not UTF-8
NotUtf8 == "0xFF"

\* the lines a log file may have: two entries as log_query writes them, an
\* empty line, a line cut short, a JSON object without request_id, and a
\* line with bytes that are not UTF-8
LogLines ==
    { JsonLine(EntryDict(1, "null")),
      JsonLine(EntryDict(2, "Exception")),
      [text |-> <<>>, nl |-> TRUE],
      [text |-> <<"request_id", 1>>, nl |-> TRUE],
      [text |-> <<"query", 1, "error", "null">>, nl |-> TRUE],
      [text |-> <<NotUtf8>>, nl |-> TRUE] }

\* the text layer of open(..., "r", encoding="utf-8") decodes the line
Decodes(line) == line.text = <<>> \/ line.text[1] # NotUtf8

\* ReadLogFile as it would be if a line that fails to parse ended the loop
ReadLogFileStopsAtBadLine(lines) ==
    LET bad == {i \in DOMAIN lines : lines[i].text # <<>> /\ ParseLogLine(lines[i]) = NoEntry}
        upto == IF bad = {} THEN Len(lines)
                ELSE (CHOOSE i \in bad : \A j \in bad : i <= j) - 1
    IN [raised |-> "None", entries |-> GetAllLogsOf(<<SubSeq(lines, 1, upto)>>, 1)]

\* get_all_logs, lines 170-181, over a file of these lines: "for line in
\* fh" raises UnicodeDecodeError on bytes that are not UTF-8, which is no
\* OSError and leaves the function; otherwise the parsed lines are returned
ReadLogFile(lines) ==
    IF \E i \in DOMAIN lines : ~Decodes(lines[i])
    THEN [raised |-> "UnicodeDecodeError", entries |-> <<>>]
    ELSE [raised |-> "None", entries |-> GetAllLogsOf(<<lines>>, 1)]

\* every log file of up to MaxLogLines lines
LogReaderInit ==
    \E n \in 0..MaxLogLines : \E l \in [1..n -> LogLines] :
        CallStart([fn |-> "get_all_logs", lines |-> l])

\* get_all_logs() is called
GetAllLogs ==
    /\ callIn.fn = "get_all_logs" /\ callOut = NoCall
    /\ callOut' = [fn |-> "get_all_logs"] @@ ReadLogFile(callIn.lines)
    /\ UNCHANGED callIn

(***************************************************************************)
(* Part 9: claims                                                          *)
(***************************************************************************)

\* the line is a complete JSON object with the fields of a LogEntry
WellFormed(line) ==
    /\ Decodes(line)
    /\ Len(line.text) = 4 /\ line.text[1] = "request_id" /\ line.text[3] = "error"

\* the entries of the well-formed lines, in file order
WellFormedEntries(lines) ==
    LET good == SelectSeq(lines, WellFormed)
    IN [i \in DOMAIN good |-> [request_id |-> good[i].text[2], error |-> good[i].text[4]]]

\* C26: get_all_logs() returns the entries of the well-formed lines of the
\* file, in file order: no other line makes it fail or stop.
C26_CorruptLinesAreSkipped ==
    callOut.fn = "get_all_logs" =>
        /\ callOut.raised = "None"
        /\ callOut.entries = WellFormedEntries(callIn.lines)

\* get_all_logs() over a file whose lines are all UTF-8 text returns the
\* entries of the well-formed lines, in file order
GetAllLogsOverTextFile ==
    (callOut.fn = "get_all_logs" /\ \A i \in DOMAIN callIn.lines : Decodes(callIn.lines[i])) =>
        /\ callOut.raised = "None"
        /\ callOut.entries = WellFormedEntries(callIn.lines)

(***************************************************************************)
(* Part 10: chunker (ingestion.py, token_counter.py)                       *)
(*                                                                         *)
(* A text is the list of its words, each with the separator that stands    *)
(* before it ("" before the first), the tokens it has for the tokenizer,   *)
(* the page it was extracted from and an id that tells it from every other *)
(* word.  A word of no tokens is the empty string between two separators.  *)
(* A word has four characters a token.                                     *)
(***************************************************************************)

MaxWords == 3         \* words of the text given to _recursive_split

\* _CHUNK_SIZE and _CHUNK_OVERLAP, in tokens
CHUNK_SIZE == 512
CHUNK_OVERLAP == 64

\* _SEPARATORS
SEPARATORS == <<"\n\n", "\n", ". ", " ">>

Word(id, w, sep, page) == [id |-> id, w |-> w, sep |-> sep, page |-> page]

\* the empty string after the separator sep
Gap(sep) == Word(0, 0, sep, 0)

RECURSIVE SumTokens(_)
SumTokens(text) ==
    IF text = <<>> THEN 0 ELSE text[1].w + SumTokens(Tail(text))

\* count_tokens with the tokenizer, lines 58-67: the tokens of the words;
\* white space has none
count_tokens(text) == SumTokens(text)

SepLen(sep) == CASE sep = "" -> 0 [] sep = "\n\n" -> 2 [] sep = ". " -> 2 [] OTHER -> 1

\* len(text), in characters
RECURSIVE Chars(_)
Chars(text) ==
    IF text = <<>> THEN 0
    ELSE SepLen(text[1].sep) + 4 * text[1].w + Chars(Tail(text))

\* the words of text.split(): what stands between white space
SplitWords(text) == SelectSeq(text, LAMBDA x : x.w > 0)

\* " ".join(words)
JoinWords(words) ==
    [i \in DOMAIN words |-> [words[i] EXCEPT !.sep = IF i = 1 THEN "" ELSE " "]]

\* a + sep + b
Concat(a, sep, b) ==
    IF b = <<>> THEN a \o <<Gap(sep)>>
    ELSE a \o <<[b[1] EXCEPT !.sep = sep]>> \o Tail(b)

\* the last n tokens of the text, decoded: the words they make up, the
\* first of them cut where the n tokens begin, with single spaces between
RECURSIVE LastTokens(_, _)
LastTokens(words, n) ==
    IF words = <<>> \/ n <= 0 THEN <<>>
    ELSE LET last == words[Len(words)]
         IN IF last.w > n THEN <<[last EXCEPT !.id = 0, !.w = n]>>
            ELSE LastTokens(SubSeq(words, 1, Len(words) - 1), n - last.w) \o <<last>>

\* get_last_n_tokens with the tokenizer, lines 85-93
get_last_n_tokens(text, n) ==
    IF text = <<>> \/ n <= 0 THEN <<>>
    ELSE JoinWords(LastTokens(SplitWords(text), n))

\* "\n\n" read as two "\n" with the empty string between them
RECURSIVE SingleNewlines(_)
SingleNewlines(text) ==
    IF text = <<>> THEN <<>>
    ELSE (IF text[1].sep = "\n\n"
          THEN <<Gap("\n"), [text[1] EXCEPT !.sep = "\n"]>>
          ELSE <<text[1]>>) \o SingleNewlines(Tail(text))

\* the text as the separator sep finds it
SeenBy(text, sep) == IF sep = "\n" THEN SingleNewlines(text) ELSE text

\* "sep in text"
Contains(text, sep) == \E i \in DOMAIN SeenBy(text, sep) : SeenBy(text, sep)[i].sep = sep

\* a piece of a split as a string of its own
AsString(piece) == IF Len(piece) = 1 /\ piece[1].w = 0 THEN <<>> ELSE piece

RECURSIVE SplitFrom(_, _, _, _)
SplitFrom(text, sep, done, piece) ==
    IF text = <<>> THEN Append(done, AsString(piece))
    ELSE IF text[1].sep = sep
    THEN SplitFrom(Tail(text), sep, Append(done, AsString(piece)),
                   <<[text[1] EXCEPT !.sep = ""]>>)
    ELSE SplitFrom(Tail(text), sep, done, Append(piece, text[1]))

\* text.split(sep)
SplitOn(text, sep) ==
    IF text = <<>> THEN << <<>> >>
    ELSE SplitFrom(Tail(SeenBy(text, sep)), sep, <<>>, <<SeenBy(text, sep)[1]>>)

\* the midpoint fallback of lines 112-116
SplitAtMidpoint(text) ==
    LET words == SplitWords(text)
        half == Len(words) \div 2
        mid == IF half >= 1 THEN half ELSE 1
    IN <<JoinWords(SubSeq(words, 1, mid)), JoinWords(SubSeq(words, mid + 1, Len(words)))>>

RECURSIVE recursive_split(_, _)
RECURSIVE SplitLoop(_, _, _, _, _, _)

\* the loop of lines 129-156 from segment i on, with the chunks made so far
\* and the buffer "current"
SplitLoop(segments, i, chunks, current, sep, remaining_seps) ==
    IF i > Len(segments)
    THEN IF current # <<>> THEN Append(chunks, current) ELSE chunks
    ELSE LET segment == segments[i]
             candidate == IF current = <<>> THEN segment ELSE Concat(current, sep, segment)
         IN IF count_tokens(candidate) > CHUNK_SIZE
            THEN IF current # <<>>
                 THEN LET overlap_text == get_last_n_tokens(current, CHUNK_OVERLAP)
                      IN SplitLoop(segments, i + 1, Append(chunks, current),
                                   IF overlap_text # <<>>
                                   THEN Concat(overlap_text, sep, segment) ELSE segment,
                                   sep, remaining_seps)
                 ELSE LET sub_chunks == recursive_split(segment, remaining_seps)
                      IN SplitLoop(segments, i + 1,
                                   chunks \o SubSeq(sub_chunks, 1, Len(sub_chunks) - 1),
                                   sub_chunks[Len(sub_chunks)], sep, remaining_seps)
            ELSE SplitLoop(segments, i + 1, chunks, candidate, sep, remaining_seps)

\* _recursive_split(text, separators), lines 109-156
recursive_split(text, separators) ==
    IF count_tokens(text) <= CHUNK_SIZE THEN <<text>>
    ELSE IF separators = <<>> THEN SplitAtMidpoint(text)
    ELSE IF ~Contains(text, separators[1])
    THEN recursive_split(text, Tail(separators))
    ELSE SplitLoop(SplitOn(text, separators[1]), 1, <<>>, <<>>,
                   separators[1], Tail(separators))

\* the tokens a word may have
WordTokens == {100, 300, 600}

\* what may stand between two words: a paragraph break, a space, a tab
WordSeparators == {"\n\n", " ", "\t"}

\* every text of n words
TextsOf(n) ==
    { [i \in 1..n |-> Word(i, ws[i], IF i = 1 THEN "" ELSE ss[i], 1)] :
        ws \in [1..n -> WordTokens], ss \in [1..n -> WordSeparators] }

\* the suffixes of the separator hierarchy
SeparatorSuffixes == {SubSeq(SEPARATORS, i, Len(SEPARATORS)) : i \in 1..(Len(SEPARATORS) + 1)}

\* every text of up to MaxWords words, with every suffix of the hierarchy
SplitterInit ==
    \E n \in 0..MaxWords : \E text \in TextsOf(n) : \E seps \in SeparatorSuffixes :
        CallStart([fn |-> "_recursive_split", text |-> text, separators |-> seps])

\* _recursive_split(text, separators) is called
RecursiveSplit ==
    /\ callIn.fn = "_recursive_split" /\ callOut = NoCall
    /\ callOut' = [fn |-> "_recursive_split",
                   chunks |-> recursive_split(callIn.text, callIn.separators)]
    /\ UNCHANGED callIn

\* ------------------------------------------------------------ chunk_text --

MaxPages == 3         \* pages of the document given to chunk_text

\* characters of "\n[PAGE_BREAK:N]\n", the text put after every page (line
\* 70), and of what is left of it in clean_text, "\n\n"
MarkerChars == 16

\* full_text up to and with page n: the length in characters
RECURSIVE FullChars(_, _)
FullChars(pages, n) ==
    IF n = 0 THEN 0 ELSE FullChars(pages, n - 1) + Chars(pages[n]) + MarkerChars

\* _build_page_map, lines 166-170: the offset of every marker in full_text
\* (one past the end of the page text) with its page number
build_page_map(pages) ==
    [n \in DOMAIN pages |->
        [offset |-> FullChars(pages, n - 1) + Chars(pages[n]) + 1, page |-> n]]

\* the empty string
Nothing == <<Gap("")>>

\* clean_text, line 203: the page texts, "\n\n" after each
RECURSIVE CleanText(_, _)
CleanText(pages, n) ==
    IF n = 0 THEN Nothing
    ELSE Concat(IF n = 1 THEN (IF pages[1] = <<>> THEN Nothing ELSE pages[1])
                ELSE Concat(CleanText(pages, n - 1), "\n\n", pages[n]),
                "\n\n", <<>>)

\* the offset at which word j of the text begins
WordStart(text, j) == Chars(SubSeq(text, 1, j - 1)) + SepLen(text[j].sep)

\* the offsets at which the chunk is found in the text: its words, and the
\* separators between them, are those of the text from some word on
Occurrences(text, chunk) ==
    IF chunk[1].w = 0 /\ Len(chunk) > 1
    THEN LET c == Tail(chunk) IN
         { WordStart(text, j) - SepLen(text[j].sep) :
             j \in {j \in 1..(Len(text) - Len(c) + 1) :
                      \A k \in DOMAIN c : text[j + k - 1] = c[k]} }
    ELSE { WordStart(text, j) :
             j \in {j \in 1..(Len(text) - Len(chunk) + 1) :
                      /\ text[j].id = chunk[1].id /\ text[j].w = chunk[1].w
                      /\ \A k \in 2..Len(chunk) : text[j + k - 1] = chunk[k]} }

\* clean_text.find(chunk, start): the lowest offset from start on, or -1
Find(text, chunk, start) ==
    LET at == {o \in Occurrences(text, chunk) : o >= start}
    IN IF at = {} THEN -1 ELSE CHOOSE o \in at : \A x \in at : o <= x

\* lookup_page as it would be if a marker stood before its page
lookup_pageOfNextMarker(char_offset, page_map) ==
    LET after == {i \in DOMAIN page_map : page_map[i].offset >= char_offset}
    IN IF after = {} THEN Len(page_map)
       ELSE page_map[CHOOSE i \in after : \A j \in after : i <= j].page

\* _lookup_page, lines 180-186: the page of the last marker at or before
\* the offset, 1 if there is none
lookup_page(char_offset, page_map) ==
    LET before == {i \in DOMAIN page_map : page_map[i].offset <= char_offset}
    IN IF before = {} THEN 1
       ELSE page_map[CHOOSE i \in before : \A j \in before : i >= j].page

\* chunk.strip(): the words from the first to the last that is not empty
RECURSIVE StripText(_)
StripText(text) ==
    IF text = <<>> THEN <<>>
    ELSE IF text[1].w = 0 THEN StripText(Tail(text))
    ELSE IF text[Len(text)].w = 0 THEN StripText(SubSeq(text, 1, Len(text) - 1))
    ELSE <<[text[1] EXCEPT !.sep = ""]>> \o Tail(text)

\* the loop of chunk_text, lines 211-233, from chunk i on
RECURSIVE AssignPages(_, _, _, _, _, _, _)
AssignPages(raw_chunks, i, search_start, result, clean_text, full_chars, page_map) ==
    IF i > Len(raw_chunks) THEN result
    ELSE LET chunk == raw_chunks[i] IN
         IF SplitWords(chunk) = <<>>
         THEN AssignPages(raw_chunks, i + 1, search_start, result, clean_text, full_chars, page_map)
         ELSE LET first == Find(clean_text, chunk, search_start)
                  idx == IF first = -1 THEN Find(clean_text, chunk, 0) ELSE first
                  len == IF Chars(clean_text) >= 1 THEN Chars(clean_text) ELSE 1
                  approx_full_offset == (idx * full_chars) \div len
                  page_num == IF idx >= 0 THEN lookup_page(approx_full_offset, page_map) ELSE 1
              IN AssignPages(raw_chunks, i + 1,
                             IF idx >= 0 THEN idx + Chars(chunk) ELSE search_start,
                             Append(result, [text |-> StripText(chunk), page_number |-> page_num]),
                             clean_text, full_chars, page_map)

\* chunk_text(full_text), lines 200-235, full_text being what
\* extract_text_from_pdf makes of the pages
chunk_text(pages) ==
    AssignPages(recursive_split(CleanText(pages, Len(pages)), SEPARATORS), 1, 0, <<>>,
                CleanText(pages, Len(pages)), FullChars(pages, Len(pages)),
                build_page_map(pages))

\* the text of a page, by its shape: nothing, a short line, a long run, two
\* runs on a line, two paragraphs
PageText(shape, p) ==
    CASE shape = "empty" -> <<>>
      [] shape = "short" -> <<Word(10 * p + 1, 100, "", p)>>
      [] shape = "long" -> <<Word(10 * p + 1, 600, "", p)>>
      [] shape = "line" -> <<Word(10 * p + 1, 300, "", p), Word(10 * p + 2, 300, " ", p)>>
      [] OTHER -> <<Word(10 * p + 1, 300, "", p), Word(10 * p + 2, 300, "\n\n", p)>>

PageShapes == {"empty", "short", "long", "line", "paragraphs"}

\* every document of up to MaxPages pages that has text (one without makes
\* extract_text_from_pdf raise, lines 75-80)
ChunkerInit ==
    \E n \in 1..MaxPages : \E shapes \in [1..n -> PageShapes] :
        /\ \E p \in 1..n : shapes[p] # "empty"
        /\ CallStart([fn |-> "chunk_text", pages |-> [p \in 1..n |-> PageText(shapes[p], p)]])

\* chunk_text(full_text) is called
ChunkText ==
    /\ callIn.fn = "chunk_text" /\ callOut = NoCall
    /\ callOut' = [fn |-> "chunk_text", result |-> chunk_text(callIn.pages)]
    /\ UNCHANGED callIn

(***************************************************************************)
(* Part 10: claims                                                         *)
(***************************************************************************)

\* the pages the words of the chunk were extracted from
PagesOf(text) == {text[i].page : i \in {i \in DOMAIN text : text[i].w > 0}}

\* C29: a chunk whose text lies within one page of a document is given the
\* number of that page, and every page number given is between 1 and the
\* number of pages.
C29_ChunkGetsItsPage ==
    callOut.fn = "chunk_text" =>
        \A i \in DOMAIN callOut.result :
            /\ callOut.result[i].page_number \in 1..Len(callIn.pages)
            /\ \A p \in 1..Len(callIn.pages) :
                 PagesOf(callOut.result[i].text) = {p} => callOut.result[i].page_number = p

\* every page number chunk_text gives is between 1 and the number of pages
PageNumbersInRange ==
    callOut.fn = "chunk_text" =>
        \A i \in DOMAIN callOut.result :
            callOut.result[i].page_number \in 1..Len(callIn.pages)


\* C27: every chunk _recursive_split returns has at most 512 tokens.
C27_ChunksFitChunkSize ==
    callOut.fn = "_recursive_split" =>
        \A i \in DOMAIN callOut.chunks : count_tokens(callOut.chunks[i]) <= CHUNK_SIZE

(***************************************************************************)
(* Part 11: chunk sanitizer (text_sanitizer.py, sanitize_chunk)            *)
(*                                                                         *)
(* A text is the list of its lines, a line the list of its words, with     *)
(* single spaces between them; "more" counts plain words that follow the   *)
(* listed ones on the line.                                                *)
(***************************************************************************)

MaxSanLines == 2      \* lines of the text given to sanitize_chunk, the long one apart

\* _CHUNK_MAX_TOKENS
CHUNK_MAX_TOKENS == 600

\* max_words = int(_CHUNK_MAX_TOKENS * 0.75), line 95
max_words == (CHUNK_MAX_TOKENS * 3) \div 4

\* the words of the texts: a word with a colon, two words of a pattern in
\* two cases, a plain word and a page marker
SanWords == {"SYSTEM:", "you", "ARE", "text", "[PAGE_BREAK:1]"}

\* str.upper() of a word, for re.IGNORECASE
Upper(w) == IF w = "you" THEN "YOU" ELSE w

Line(words, more) == [words |-> words, more |-> more]

\* the first two words of the line, as far as it has them
FirstWords(line) ==
    LET all == line.words \o (IF line.more > 0 THEN <<"text">> ELSE <<>>)
    IN SubSeq(all, 1, IF Len(all) < 2 THEN Len(all) ELSE 2)

\* any(pat.match(line) for pat in _INJECTION_PATTERNS), lines 15-20 and 89
MatchesInjection(line) ==
    LET f == FirstWords(line) IN
    /\ f # <<>>
    /\ \/ Upper(f[1]) \in {"SYSTEM:", "INSTRUCTION:"}
       \/ Len(f) = 2 /\ Upper(f[1]) \in {"SYSTEM", "INSTRUCTION"} /\ Upper(f[2]) = ":"
       \/ Len(f) = 2 /\ Upper(f[1]) = "IGNORE" /\ Upper(f[2]) = "PREVIOUS"
       \/ Len(f) = 2 /\ Upper(f[1]) = "YOU" /\ Upper(f[2]) = "ARE"

\* _PAGE_BREAK_RE.sub("", text) and the collapse of the spaces left, lines
\* 78-82
RemoveMarkers(lines) ==
    [i \in DOMAIN lines |->
        [lines[i] EXCEPT !.words = SelectSeq(@, LAMBDA w : w # "[PAGE_BREAK:1]")]]

RECURSIVE WordsOf(_)
WordsOf(lines) ==
    IF lines = <<>> THEN <<>> ELSE lines[1].words \o WordsOf(Tail(lines))

RECURSIVE MoreOf(_)
MoreOf(lines) ==
    IF lines = <<>> THEN 0 ELSE lines[1].more + MoreOf(Tail(lines))

\* lines 96-98: past max_words words the text becomes its first max_words
\* words on one line (the plain words counted in "more" end the text)
Truncate(lines) ==
    IF Len(WordsOf(lines)) + MoreOf(lines) > max_words
    THEN <<Line(WordsOf(lines), max_words - Len(WordsOf(lines)))>>
    ELSE lines

IsEmptyLine(line) == line.words = <<>> /\ line.more = 0

\* text.strip(): no empty line at either end
RECURSIVE Strip(_)
Strip(lines) ==
    IF lines = <<>> THEN <<>>
    ELSE IF IsEmptyLine(lines[1]) THEN Strip(Tail(lines))
    ELSE IF IsEmptyLine(lines[Len(lines)]) THEN Strip(SubSeq(lines, 1, Len(lines) - 1))
    ELSE lines

\* sanitize_chunk as it would be if the lines were filtered after the
\* truncation
sanitize_chunkFilterLast(lines) ==
    Strip(SelectSeq(Truncate(RemoveMarkers(lines)), LAMBDA l : ~MatchesInjection(l)))

\* sanitize_chunk, lines 74-100
sanitize_chunk(lines) ==
    Strip(Truncate(SelectSeq(RemoveMarkers(lines), LAMBDA l : ~MatchesInjection(l))))

\* the lines of up to two words
ShortLines ==
    {Line(ws, 0) : ws \in UNION {[1..n -> SanWords] : n \in 0..2}}

\* every text of up to MaxSanLines short lines, as it is or followed by a
\* line of max_words - 1 plain words
SanitizerInit ==
    \E n \in 0..MaxSanLines : \E l \in [1..n -> ShortLines] :
      \E long \in {<<>>, <<Line(<<>>, max_words - 1)>>} :
        CallStart([fn |-> "sanitize_chunk", text |-> l \o long])

\* sanitize_chunk(text) is called
SanitizeChunk ==
    /\ callIn.fn = "sanitize_chunk" /\ callOut = NoCall
    /\ callOut' = [fn |-> "sanitize_chunk", text |-> sanitize_chunk(callIn.text)]
    /\ UNCHANGED callIn

(***************************************************************************)
(* Part 11: claims                                                         *)
(***************************************************************************)

\* C28: no line of the text sanitize_chunk returns starts with an injection
\* pattern, whether the text was truncated or not.
C28_NoInjectionLineLeft ==
    callOut.fn = "sanitize_chunk" =>
        \A i \in DOMAIN callOut.text : ~MatchesInjection(callOut.text[i])

\* of a text that is not truncated, no line sanitize_chunk returns starts with
\* an injection pattern
NoInjectionLineLeftInShortText ==
    (callOut.fn = "sanitize_chunk"
       /\ Len(WordsOf(callIn.text)) + MoreOf(callIn.text) <= max_words) =>
        \A i \in DOMAIN callOut.text : ~MatchesInjection(callOut.text[i])

\* ------------------------------------------------------- specifications --

\* calls executed one at a time, every file operation succeeds
NextSeq ==
    /\ \E t \in Threads : (Quiescent /\ Call(t)) \/ Step(t)
    /\ UNCHANGED <<groqVars, queryVars, logVars, appVars, routerVars, retrieverVars, callVars>>

\* calls executed one at a time, every file operation succeeds; between
\* calls the process may stop and a new one start over the same directory
NextReload ==
    /\ \/ \E t \in Threads : (Quiescent /\ Call(t)) \/ Step(t)
       \/ Quiescent /\ Restart
    /\ UNCHANGED <<groqVars, queryVars, logVars, appVars, routerVars, retrieverVars, callVars>>

\* The ingesting thread (the only caller of load, add and persist) runs while
\* the other threads serve queries; every file operation succeeds.
Writer == 1

WriterCall(t) == t = Writer /\ (CallLoad(t) \/ CallAdd(t) \/ CallPersist(t))

ReaderCall(t) == t # Writer /\ CallSearch(t)

NextConc ==
    /\ \E t \in Threads : WriterCall(t) \/ ReaderCall(t) \/ Step(t)
    /\ UNCHANGED <<groqVars, queryVars, logVars, appVars, routerVars, retrieverVars, callVars>>

\* calls executed one at a time; file writes may fail, the process may restart
NextFault ==
    /\ (\E t \in Threads : (Quiescent /\ Call(t)) \/ Step(t) \/ Fault(t)) \/ Restart
    /\ UNCHANGED <<groqVars, queryVars, logVars, appVars, routerVars, retrieverVars, callVars>>

\* the application: startup, then ingest requests as coroutines of the event
\* loop beside queries; every file operation succeeds
NextApp ==
    /\ \/ LifespanStep
       \/ \E t \in Threads : IngestCall(t) \/ IngestStep(t) \/ RetrieveCall(t) \/ RetrieveStep(t)
    /\ UNCHANGED <<groqVars, queryVars, logVars, routerVars, retrieverVars, callVars>>

\* classify_query called on a query, again and again
NextRouter ==
    /\ Classify
    /\ UNCHANGED <<storeVars, groqVars, queryVars, logVars, appVars, retrieverVars, callVars>>

\* retrieve() working on the results of a search, or deduplicate() called
\* with a list
NextRetriever ==
    /\ Retrieve \/ Deduplicate \/ RetrieverReturn
    /\ UNCHANGED <<storeVars, groqVars, queryVars, logVars, appVars, routerVars, callVars>>

\* evaluate_output called on a response
NextEvaluator ==
    /\ Evaluate \/ CallReturn
    /\ UNCHANGED <<storeVars, groqVars, queryVars, logVars, appVars, routerVars, retrieverVars>>

\* get_all_logs called on a log file
NextLogReader ==
    /\ GetAllLogs \/ CallReturn
    /\ UNCHANGED <<storeVars, groqVars, queryVars, logVars, appVars, routerVars, retrieverVars>>

\* _recursive_split called on a text
NextSplitter ==
    /\ RecursiveSplit \/ CallReturn
    /\ UNCHANGED <<storeVars, groqVars, queryVars, logVars, appVars, routerVars, retrieverVars>>

\* sanitize_chunk called on a text
NextSanitizer ==
    /\ SanitizeChunk \/ CallReturn
    /\ UNCHANGED <<storeVars, groqVars, queryVars, logVars, appVars, routerVars, retrieverVars>>

\* chunk_text called on the text of a document
NextChunker ==
    /\ ChunkText \/ CallReturn
    /\ UNCHANGED <<storeVars, groqVars, queryVars, logVars, appVars, routerVars, retrieverVars>>

\* one generate() call after the other
NextGroq == GroqNext /\ UNCHANGED <<storeVars, queryVars, logVars, appVars, routerVars, retrieverVars, callVars>>

\* no worker in a request or in log_query
QueryQuiescent == \A t \in Threads : qpc[t] = "idle" /\ lpc[t] = "idle"

\* requests served one at a time, every write to the log file succeeds
NextQuery ==
    /\ \E t \in Threads :
        \/ QueryQuiescent /\ QueryCall(t)
        \/ QueryStep(t)
        \/ LogStep(t) /\ UNCHANGED queryVars
    /\ UNCHANGED <<storeVars, groqVars, appVars, routerVars, retrieverVars, callVars>>

\* log_query() calls of different threads interleave; opening the log file
\* may fail
NextLog ==
    /\ \E t \in Threads :
        \/ LogCall(t)
        \/ (LogStep(t) \/ LogOpenFails(t) \/ LogReturn(t)) /\ UNCHANGED queryVars
    /\ UNCHANGED <<storeVars, groqVars, appVars, routerVars, retrieverVars, callVars>>

\* Each specification starts its own part from every state a fresh process
\* can find it in, the other parts from one.
\* a query of one plain word
NoQuery ==
    [plain |-> 1, kw |-> FALSE, amb |-> FALSE, compl |-> FALSE, cmp |-> FALSE,
     questions |-> 0, periods |-> 0]

OtherParts == GroqInit /\ QueryInit /\ AppInit

InitStore == StoreInit /\ OtherParts /\ LogStart(-1) /\ RouterStart(NoQuery) /\ RetrieverStart(<<>>) /\ CallStart(NoCall)
InitGroq ==
    /\ StoreStart(<<Absent, Absent>>) /\ OtherParts /\ LogStart(-1)
    /\ RouterStart(NoQuery) /\ RetrieverStart(<<>>) /\ CallStart(NoCall)
InitQuery ==
    /\ StoreStart(<<Absent, Absent>>) /\ OtherParts /\ LogInit
    /\ RouterStart(NoQuery) /\ RetrieverStart(<<>>) /\ CallStart(NoCall)

InitRouter ==
    /\ StoreStart(<<Absent, Absent>>) /\ OtherParts /\ LogStart(-1)
    /\ RouterInit /\ RetrieverStart(<<>>) /\ CallStart(NoCall)

InitRetriever ==
    /\ StoreStart(<<Absent, Absent>>) /\ OtherParts /\ LogStart(-1)
    /\ RouterStart(NoQuery) /\ RetrieverInit /\ CallStart(NoCall)

InitEvaluator ==
    /\ StoreStart(<<Absent, Absent>>) /\ OtherParts /\ LogStart(-1)
    /\ RouterStart(NoQuery) /\ RetrieverStart(<<>>) /\ EvaluatorInit

InitLogReader ==
    /\ StoreStart(<<Absent, Absent>>) /\ OtherParts /\ LogStart(-1)
    /\ RouterStart(NoQuery) /\ RetrieverStart(<<>>) /\ LogReaderInit

InitSplitter ==
    /\ StoreStart(<<Absent, Absent>>) /\ OtherParts /\ LogStart(-1)
    /\ RouterStart(NoQuery) /\ RetrieverStart(<<>>) /\ SplitterInit

InitSanitizer ==
    /\ StoreStart(<<Absent, Absent>>) /\ OtherParts /\ LogStart(-1)
    /\ RouterStart(NoQuery) /\ RetrieverStart(<<>>) /\ SanitizerInit

InitChunker ==
    /\ StoreStart(<<Absent, Absent>>) /\ OtherParts /\ LogStart(-1)
    /\ RouterStart(NoQuery) /\ RetrieverStart(<<>>) /\ ChunkerInit

SpecSeq == InitStore /\ [][NextSeq]_vars
SpecReload == InitStore /\ [][NextReload]_vars
SpecConc == InitStore /\ [][NextConc]_vars
SpecFault == InitStore /\ [][NextFault]_vars
SpecApp == InitStore /\ [][NextApp]_vars
SpecRouter == InitRouter /\ [][NextRouter]_vars
SpecRetriever == InitRetriever /\ [][NextRetriever]_vars
SpecEvaluator == InitEvaluator /\ [][NextEvaluator]_vars
SpecLogReader == InitLogReader /\ [][NextLogReader]_vars
SpecSplitter == InitSplitter /\ [][NextSplitter]_vars
SpecSanitizer == InitSanitizer /\ [][NextSanitizer]_vars
SpecChunker == InitChunker /\ [][NextChunker]_vars
SpecGroq == InitGroq /\ [][NextGroq]_vars
SpecQuery == InitQuery /\ [][NextQuery]_vars
SpecLog == InitQuery /\ [][NextLog]_vars

====
